---- MODULE Spec2Model ----
(***************************************************************************)
(* Model of the report page layout engine of                               *)
(* frontend/src/lib/generateAnalysisPdf.ts.                                *)
(*                                                                         *)
(* A text is represented by the number of lines wrapLine produces for it   *)
(* at the width it is drawn with (always >= 1 for a drawn text); 0 stands  *)
(* for an empty string / empty list / null reference.  A canvas is the     *)
(* sequence of paint operations issued on its 2D context; canvases are     *)
(* identified by their creation order within one invocation.               *)
(*                                                                         *)
(* wrapLine is modelled on its own, on character sequences, under          *)
(* SpecWrap; lengths of the output document are exact fractions.           *)
(***************************************************************************)
EXTENDS Integers, Sequences, FiniteSets, TLC

\* ---------------------------------------------------------------- constants
PAGE_WIDTH == 1190
PAGE_HEIGHT == 1684
MARGIN_X == 80
MARGIN_TOP == 80
MARGIN_BOTTOM == 100
SECTION_GAP == 32
\* the two output page dimensions, in hundredths of a point (595.28, 841.89)
PDF_PAGE_WIDTH == 59528
PDF_PAGE_HEIGHT == 84189
BODY_COLOR == "#1f2937"
MUTED_COLOR == "#6b7280"

\* ------------------------------------------------------------------- bounds
\* longest pageSummaries list of an initial payload
MaxSummaries == 3
\* invocations of generateAnalysisPdf the caller makes one after the other
MaxRuns == 2
\* longest text handed to wrapLine, in characters
MaxTextLen == 5
\* largest maxWidth handed to wrapLine, in width units
MaxWidth == 3
\* overlapping invocations of generateAnalysisPdf
MaxCalls == 4
\* jobs of the caller waiting in the microtask queue at one time
MaxCallerJobs == 2
\* files the user chooses among on the upload page
MaxFiles == 2
\* most lines in an analysis response
MaxEvents == 2

\* ------------------------------------------------------------------ helpers
Max(a, b) == IF a >= b THEN a ELSE b

Last(s) == s[Len(s)]

\* JavaScript numbers that are not integers are kept as exact fractions in
\* lowest terms, so that equal numbers are equal records
RECURSIVE GCD(_, _)
GCD(a, b) == IF b = 0 THEN a ELSE GCD(b, a % b)

Frac(n, d) ==
  LET g == GCD(IF n < 0 THEN -n ELSE n, d)
  IN  [num |-> n \div g, den |-> d \div g]

FracMul(f, n) == Frac(f.num * n, f.den)

FracSub(f, g) == Frac(f.num * g.den - g.num * f.den, f.den * g.den)

FracLeq(f, g) == f.num * g.den <= g.num * f.den

\* a paint operation: kind, top y, height, section, page-summary index
\* (footer: page number), bullet index, line index; color is the fillStyle of
\* a paragraph line ("" where the model does not follow it)
Op(k, y, h, sec, n, i, j) ==
  [k |-> k, y |-> y, h |-> h, sec |-> sec, n |-> n, i |-> i, j |-> j, color |-> ""]

\* ------------------------------------------------------- layout state record
\* L = [pages, canvases, current, threw]: the closure state of one invocation
\*   pages    : sequence of finalized canvas ids
\*   canvases : canvas id -> sequence of paint operations
\*   current  : [canvas, cursorY, pageNumber]  (ctx is the canvas's context)
\*   threw    : an exception is propagating

Paint(L, c, op) ==
  IF L.threw THEN L ELSE [L EXCEPT !.canvases[c] = Append(@, op)]

Advance(L, dy) ==
  IF L.threw THEN L ELSE [L EXCEPT !.current.cursorY = @ + dy]

\* mutant of createPage: a missing context is not reported, the caller keeps
\* the surface it had
createPageUnchecked(L, pageNumber, ctxOk) ==
  IF L.threw \/ ~ctxOk THEN L
  ELSE [L EXCEPT
          !.canvases = Append(@, <<Op("bg", 0, PAGE_HEIGHT, "page", pageNumber, 0, 0)>>),
          !.current = [canvas |-> Len(L.canvases) + 1,
                       cursorY |-> MARGIN_TOP,
                       pageNumber |-> pageNumber]]

\* createPage: ctxOk is what canvas.getContext("2d") answers
createPage(L, pageNumber, ctxOk) ==
  IF L.threw THEN L
  ELSE IF ~ctxOk THEN [L EXCEPT !.threw = TRUE]
  ELSE [L EXCEPT
          !.canvases = Append(@, <<Op("bg", 0, PAGE_HEIGHT, "page", pageNumber, 0, 0)>>),
          !.current = [canvas |-> Len(L.canvases) + 1,
                       cursorY |-> MARGIN_TOP,
                       pageNumber |-> pageNumber]]

drawFooter(L, c, pageNumber) ==
  Paint(L, c, Op("footer", PAGE_HEIGHT - MARGIN_BOTTOM + 36, 14, "page", pageNumber, 0, 0))

\* mutant of commitPage: the finalized canvas is put in front of pages
commitPageUnshift(L, ctxOk) ==
  IF L.threw THEN L
  ELSE LET F == drawFooter(L, L.current.canvas, L.current.pageNumber)
           P == [F EXCEPT !.pages = <<L.current.canvas>> \o @]
       IN  createPage(P, L.current.pageNumber + 1, ctxOk)

\* mutant of commitPage: the footer is drawn after the swap, on the fresh surface
commitPageFooterAfterSwap(L, ctxOk) ==
  IF L.threw THEN L
  ELSE LET P == [L EXCEPT !.pages = Append(@, L.current.canvas)]
           N == createPage(P, L.current.pageNumber + 1, ctxOk)
       IN  drawFooter(N, N.current.canvas, L.current.pageNumber)

\* mutant of commitPage: the next page keeps the number of the finalized one
commitPageSameNumber(L, ctxOk) ==
  IF L.threw THEN L
  ELSE LET F == drawFooter(L, L.current.canvas, L.current.pageNumber)
           P == [F EXCEPT !.pages = Append(@, L.current.canvas)]
       IN  createPage(P, L.current.pageNumber, ctxOk)

commitPage(L, ctxOk) ==
  IF L.threw THEN L
  ELSE LET F == drawFooter(L, L.current.canvas, L.current.pageNumber)
           P == [F EXCEPT !.pages = Append(@, L.current.canvas)]
       IN  createPage(P, L.current.pageNumber + 1, ctxOk)

\* mutant of ensureSpace: the requested height is not counted
ensureSpaceNoMin(L, minHeight, ctxOk) ==
  IF L.threw THEN L
  ELSE IF L.current.cursorY > PAGE_HEIGHT - MARGIN_BOTTOM
       THEN commitPage(L, ctxOk)
       ELSE L

ensureSpace(L, minHeight, ctxOk) ==
  IF L.threw THEN L
  ELSE IF L.current.cursorY + minHeight > PAGE_HEIGHT - MARGIN_BOTTOM
       THEN commitPage(L, ctxOk)
       ELSE L

drawSectionHeading(L, sec, ctxOk) ==
  LET E == ensureSpace(L, 80, ctxOk)
  IN  IF E.threw THEN E
      ELSE Advance(Paint(E, E.current.canvas,
                         Op("section", E.current.cursorY, 34, sec, 0, 0, 0)), 34)

drawSubHeading(L, sec, ctxOk) ==
  LET E == ensureSpace(L, 50, ctxOk)
  IN  IF E.threw THEN E
      ELSE Advance(Paint(E, E.current.canvas,
                         Op("sub", E.current.cursorY, 28, sec, 0, 0, 0)), 28)

drawPageSummaryHeading(L) ==
  IF L.threw THEN L
  ELSE Advance(Paint(L, L.current.canvas,
                     Op("psHeading", L.current.cursorY, 38, "ps", 0, 0, 0)), 38)

\* the "page N" heading of a page summary, with or without its meta label
drawPageHeading(L, n, withMeta) ==
  IF L.threw THEN L
  ELSE LET H == Paint(L, L.current.canvas,
                      Op("pageHeading", L.current.cursorY, 28, "ps", n, 0, 0))
           M == IF withMeta
                THEN Paint(H, H.current.canvas,
                           Op("pageMeta", H.current.cursorY + 2, 26, "ps", n, 0, 0))
                ELSE H
       IN  Advance(M, 28)

\* the onOverflow closures handed to drawParagraph / drawBulletList, by call site
onOverflow(L, cb, n, ctxOk) ==
  CASE cb = "gs" ->      \* lines 346-349
         drawSectionHeading(commitPage(L, ctxOk), "gs", ctxOk)
    [] cb = "exp1" ->    \* lines 362-366
         drawSubHeading(drawSectionHeading(commitPage(L, ctxOk), "exp", ctxOk), "exp1", ctxOk)
    [] cb = "exp2" ->    \* lines 374-378
         drawSubHeading(drawSectionHeading(commitPage(L, ctxOk), "exp", ctxOk), "exp2", ctxOk)
    [] cb = "exp3" ->    \* lines 386-390
         drawSubHeading(drawSectionHeading(commitPage(L, ctxOk), "exp", ctxOk), "exp3", ctxOk)
    [] cb = "kw" ->      \* lines 405-408
         drawSectionHeading(commitPage(L, ctxOk), "kw", ctxOk)
    [] cb = "psBullets" ->   \* lines 446-463
         drawPageHeading(drawPageSummaryHeading(commitPage(L, ctxOk)), n, TRUE)
    [] cb = "psPara" ->      \* lines 469-478, 488-497, 506-515
         drawPageHeading(drawPageSummaryHeading(commitPage(L, ctxOk)), n, FALSE)
    [] OTHER -> L            \* ensureSpace?.() with no callback given

\* mutant of reacquireCtx: the renderer keeps the context it started with
keepStaleCtx(L, stale) == stale

\* the context a block renderer paints with after its overflow callback returned
reacquireCtx(L, stale) == L.current.canvas

\* ----------------------------------------------------------------- payloads
Summary(cls, bl, kw, sk, rl) ==
  [classification |-> cls, bullets |-> bl, kwLines |-> kw, skipped |-> sk, skipLines |-> rl]

EmptyPayload ==
  [gsBullets |-> <<>>, exp |-> <<0, 0, 0>>, kwLines |-> 0, pageSummaries |-> <<>>,
   wordcloudUrl |-> 0, mindmapImageUrl |-> 0, fontUrl |-> FALSE]

GsChoices == {<<>>, <<2>>, <<30, 30>>, <<57>>, <<58>>}
ExpChoices == {<<0, 0, 0>>, <<1, 41, 52>>}
KwChoices == {0, 1, 60}
SummaryChoices ==
  { Summary("normal", <<48>>, 0, FALSE, 0),
    Summary("toc", <<6>>, 1, FALSE, 0),
    Summary("blank", <<>>, 0, TRUE, 1),
    Summary("other", <<20, 30>>, 2, TRUE, 0) }
\* a URL is represented by the wrapped line count of its load-error message
UrlChoices == {0, 1, 57}
ImageSizes == {<<800, 600>>, <<2380, 1000>>, <<1000, 4272>>}

SeqsUpTo(S, n) == UNION {[1..m -> S] : m \in 0..n}

CoverPayloads ==
  {[EmptyPayload EXCEPT !.gsBullets = g, !.exp = e, !.kwLines = k] :
     g \in GsChoices, e \in ExpChoices, k \in KwChoices}
SummaryPayloads ==
  {[EmptyPayload EXCEPT !.pageSummaries = s] : s \in SeqsUpTo(SummaryChoices, MaxSummaries)}
ImagePayloads ==
  {[EmptyPayload EXCEPT !.wordcloudUrl = w, !.mindmapImageUrl = m] :
     w \in UrlChoices, m \in UrlChoices}
FontPayloads == {[EmptyPayload EXCEPT !.fontUrl = TRUE]}

Payloads == CoverPayloads \cup SummaryPayloads \cup ImagePayloads \cup FontPayloads

\* payloads obtained from P by adding one unit of content
Grow(P) ==
  {[P EXCEPT !.gsBullets = Append(@, 1)],
   [P EXCEPT !.exp[1] = @ + 1]}
  \cup (IF Len(P.pageSummaries) > 0 /\ Len(P.pageSummaries[1].bullets) > 0
        THEN {[P EXCEPT !.pageSummaries[1].bullets[1] = @ + 1]} ELSE {})
  \cup {[P EXCEPT !.pageSummaries = Append(@, Summary("toc", <<6>>, 1, FALSE, 0))]}

\* -------------------------------------------------------------------- state
VARIABLES
  payload,          \* the argument of the running invocation
  run,              \* number of the running invocation
  prevPageCount,    \* pages.length of the previous invocation (0: none)
  pc,               \* position of the invocation
  pages,            \* const pages: finalized canvases
  canvases,         \* paint log of every canvas created
  current,          \* const current: PageContext
  frame,            \* locals of the running drawParagraph / drawBulletList
  sIdx,             \* page summaries whose loop iteration has started
  img,              \* which drawImagePage call is running (1, 2)
  outPages,         \* pages added to pdfDoc
  drawnImages,      \* arguments of the drawImage calls made
  result,           \* what the invocation returned: "none", "bytes", "error"
  fontLoadPromise,  \* module level: "null", "pending", "settled"
  pdfFontLoaded,    \* module level
  fontLoads,        \* the FontFace loads started so far: "pending", "ok", "failed"
  wrapText,         \* wrapLine: the text argument
  wrapMaxWidth,     \* wrapLine: the maxWidth argument
  wrapResult,       \* wrapLine: the returned lines
  wrapPc,           \* wrapLine: "idle", "call", "returned"
  calls,            \* overlapping invocations: position of each in ensurePrimaryFont
  microtasks,       \* overlapping invocations: the queue of continuations to run
  fontLoadPromiseRef, \* overlapping invocations: fontLoadPromise, 0 (null) or an attempt
  pdfFontLoadedFlag,  \* overlapping invocations: pdfFontLoaded
  attempts,         \* overlapping invocations: the load attempts started, with waiters
  fontsAdded,       \* overlapping invocations: calls of document.fonts.add
  callerRunning,    \* overlapping invocations: code of the caller is on the stack
  selectedFiles,    \* upload page: 0 (none) or the file selected
  isAnalyzing,      \* upload page
  isMindmapLoading, \* upload page
  analysisResult,   \* upload page: 0 (null) or the file the result was produced from
  mindmapResult,    \* upload page: 0 (null) or the file the result was produced from
  activeFeature,    \* upload page: "summary", "pages", "mindmap"
  error,            \* upload page: "null" or which message
  mindmapError,     \* upload page: "null" or which message
  settingsOpen,     \* upload page
  apiKey,           \* upload page: TRUE when apiKey.trim() is not empty
  analysisCompleteMessage, \* upload page: TRUE when a message is shown
  analysisProgress, \* upload page: TRUE when a progress record is shown
  progressTimer,    \* upload page: TRUE when the timeout of line 411 is pending
  analyzeRequest,   \* upload page: 0 or the file of the /analyze request in flight
  mindmapRequest,   \* upload page: 0 or the file of the /mindmap request in flight
  stream,           \* response parse: the characters the server sends
  parses            \* response parse: two reads of the stream, each with its chunking

vars == <<payload, run, prevPageCount, pc, pages, canvases, current, frame, sIdx,
          img, outPages, drawnImages, result, fontLoadPromise, pdfFontLoaded,
          fontLoads, wrapText, wrapMaxWidth, wrapResult, wrapPc,
          calls, microtasks, fontLoadPromiseRef, pdfFontLoadedFlag, attempts,
          fontsAdded, callerRunning,
          selectedFiles, isAnalyzing, isMindmapLoading, analysisResult, mindmapResult,
          activeFeature, error, mindmapError, settingsOpen, apiKey,
          analysisCompleteMessage, analysisProgress, progressTimer, analyzeRequest,
          mindmapRequest, stream, parses>>

layoutVars ==
  <<payload, run, prevPageCount, pc, pages, canvases, current, frame, sIdx, img,
    outPages, drawnImages, result, fontLoadPromise, pdfFontLoaded, fontLoads>>

wrapVars == <<wrapText, wrapMaxWidth, wrapResult, wrapPc>>

fontCallVars ==
  <<calls, microtasks, fontLoadPromiseRef, pdfFontLoadedFlag, attempts, fontsAdded,
    callerRunning>>

pageVars ==
  <<selectedFiles, isAnalyzing, isMindmapLoading, analysisResult, mindmapResult,
    activeFeature, error, mindmapError, settingsOpen, apiKey, analysisCompleteMessage,
    analysisProgress, progressTimer, analyzeRequest, mindmapRequest>>

streamVars == <<stream, parses>>

\* what an invocation of generateAnalysisPdf leaves alone
otherVars == <<wrapVars, fontCallVars, pageVars, streamVars>>

\* what a call of wrapLine leaves alone
notWrapVars == <<layoutVars, fontCallVars, pageVars, streamVars>>

\* what overlapping calls of ensurePrimaryFont leave alone
notFontCallVars == <<layoutVars, wrapVars, pageVars, streamVars>>

\* what the handlers of the upload page leave alone
notPageVars == <<layoutVars, wrapVars, fontCallVars, streamVars>>

\* what the parse of the analysis response leaves alone
notStreamVars == <<layoutVars, wrapVars, fontCallVars, pageVars>>

\* no call of wrapLine is being followed
WrapIdle ==
  /\ wrapText = <<>>
  /\ wrapMaxWidth = 1
  /\ wrapResult = <<>>
  /\ wrapPc = "idle"

\* no overlapping invocations are being followed
FontCallsIdle ==
  /\ calls = <<>>
  /\ microtasks = <<>>
  /\ fontLoadPromiseRef = 0
  /\ pdfFontLoadedFlag = FALSE
  /\ attempts = <<>>
  /\ fontsAdded = 0
  /\ callerRunning = FALSE

\* the upload page as mounted, nothing selected (lines 123-148)
PageIdle ==
  /\ selectedFiles = 0
  /\ isAnalyzing = FALSE
  /\ isMindmapLoading = FALSE
  /\ analysisResult = 0
  /\ mindmapResult = 0
  /\ activeFeature = "summary"
  /\ error = "null"
  /\ mindmapError = "null"
  /\ settingsOpen = FALSE
  /\ apiKey = FALSE
  /\ analysisCompleteMessage = FALSE
  /\ analysisProgress = FALSE
  /\ progressTimer = FALSE
  /\ analyzeRequest = 0
  /\ mindmapRequest = 0

\* no analysis response is being read
StreamIdle ==
  /\ stream = <<>>
  /\ parses = <<>>

NoFrame ==
  [kind |-> "none", ctx |-> 0, items |-> <<>>, done |-> 0, lineHeight |-> 0, gap |-> 0,
   cb |-> "none", ret |-> "none", sec |-> "none", n |-> 0, part |-> "none",
   color |-> "", handled |-> FALSE]

NoPage == [canvas |-> 0, cursorY |-> 0, pageNumber |-> 0]

LS == [pages |-> pages, canvases |-> canvases, current |-> current, threw |-> FALSE]

\* write a layout result back; an exception rejects the invocation
Settle(R, nextPc) ==
  /\ pages' = R.pages
  /\ canvases' = R.canvases
  /\ current' = R.current
  /\ pc' = IF R.threw THEN "rejected" ELSE nextPc
  /\ result' = IF R.threw THEN "error" ELSE result

Init ==
  /\ payload \in Payloads
  /\ run = 1
  /\ prevPageCount = 0
  /\ pc = "font"
  /\ pages = <<>>
  /\ canvases = <<>>
  /\ current = NoPage
  /\ frame = NoFrame
  /\ sIdx = 0
  /\ img = 1
  /\ outPages = <<>>
  /\ drawnImages = <<>>
  /\ result = "none"
  /\ fontLoadPromise = "null"
  /\ pdfFontLoaded = FALSE
  /\ fontLoads = <<>>
  /\ WrapIdle
  /\ FontCallsIdle
  /\ PageIdle
  /\ StreamIdle

\* ------------------------------------------------------ ensurePrimaryFont
\* lines 57-78: the early returns, and the start of the load when none is in flight
EnsurePrimaryFont ==
  /\ pc = "font"
  /\ IF pdfFontLoaded \/ ~payload.fontUrl
     THEN pc' = "create" /\ UNCHANGED <<fontLoadPromise, fontLoads>>
     ELSE \E supported \in BOOLEAN :
            IF ~supported
            THEN pc' = "create" /\ UNCHANGED <<fontLoadPromise, fontLoads>>
            ELSE /\ pc' = "fontAwait"
                 /\ IF fontLoadPromise = "null"
                    THEN /\ fontLoadPromise' = "pending"
                         /\ fontLoads' = Append(fontLoads, "pending")
                    ELSE UNCHANGED <<fontLoadPromise, fontLoads>>
  /\ UNCHANGED <<payload, run, prevPageCount, pages, canvases, current, frame, sIdx,
                 img, outPages, drawnImages, result, pdfFontLoaded>>
  /\ UNCHANGED otherVars

\* mutant of fontFlag: a successful load is not recorded
fontFlagNeverSet(loaded) == FALSE

\* lines 70, 72: pdfFontLoaded = true after the load, = false in the catch
fontFlag(loaded) == loaded

\* lines 63-76: the load settles; a failure is caught inside the promise
FontLoadSettled ==
  /\ fontLoadPromise = "pending"
  /\ \E loaded \in BOOLEAN :
       /\ pdfFontLoaded' = fontFlag(loaded)
       /\ fontLoads' = [fontLoads EXCEPT ![Len(fontLoads)] = IF loaded THEN "ok" ELSE "failed"]
  /\ fontLoadPromise' = "settled"
  /\ UNCHANGED <<payload, run, prevPageCount, pc, pages, canvases, current, frame,
                 sIdx, img, outPages, drawnImages, result>>
  /\ UNCHANGED otherVars

\* mutant of ensureFontResume: a font that did not load is reported to the caller
ensureFontResumeThrows(promise, loaded) ==
  IF ~loaded THEN [pc |-> "rejected", promise |-> "null"]
  ELSE [pc |-> "create", promise |-> promise]

\* lines 80-89: what ensurePrimaryFont does once the awaited promise has settled
ensureFontResume(promise, loaded) ==
  [pc |-> "create", promise |-> IF ~loaded THEN "null" ELSE promise]

FontResume ==
  /\ pc = "fontAwait"
  /\ fontLoadPromise = "settled"
  /\ fontLoadPromise' = ensureFontResume(fontLoadPromise, pdfFontLoaded).promise
  /\ pc' = ensureFontResume(fontLoadPromise, pdfFontLoaded).pc
  /\ result' = IF pc' = "rejected" THEN "error" ELSE result
  /\ UNCHANGED <<payload, run, prevPageCount, pages, canvases, current, frame, sIdx,
                 img, outPages, drawnImages, pdfFontLoaded, fontLoads>>
  /\ UNCHANGED otherVars

\* ------------------------------------------------------ generateAnalysisPdf
\* lines 279-280
CreateFirstPage ==
  /\ pc = "create"
  /\ \E ctxOk \in BOOLEAN : Settle(createPage(LS, 1, ctxOk), "title")
  /\ UNCHANGED <<payload, run, prevPageCount, frame, sIdx, img, outPages, drawnImages,
                 fontLoadPromise, pdfFontLoaded, fontLoads>>
  /\ UNCHANGED otherVars

\* lines 298-321: report title, document title, meta line; no overflow check
titleBlock(L) ==
  LET c == L.current.canvas
      A == Advance(Paint(L, c, Op("title", L.current.cursorY, 46, "title", 0, 0, 0)), 46)
      B == Advance(Paint(A, c, Op("docTitle", A.current.cursorY, 38, "title", 0, 0, 0)), 38)
  IN  Advance(Paint(B, c, Op("meta", B.current.cursorY, 40, "title", 0, 0, 0)), 40)

DrawTitleBlock ==
  /\ pc = "title"
  /\ Settle(titleBlock(LS), "gsHeading")
  /\ UNCHANGED <<payload, run, prevPageCount, frame, sIdx, img, outPages, drawnImages,
                 fontLoadPromise, pdfFontLoaded, fontLoads>>
  /\ UNCHANGED otherVars

\* the drawSectionHeading calls of the main flow: lines 344, 356, 396
SectionHeadingSite(p) ==
  CASE p = "gsHeading" -> [sec |-> "gs", next |-> "gsBody"]
    [] p = "expHeading" -> [sec |-> "exp", next |-> "sub1"]
    [] p = "kwHeading" -> [sec |-> "kw", next |-> "kwBody"]

SectionHeading ==
  /\ pc \in {"gsHeading", "expHeading", "kwHeading"}
  /\ \E ctxOk \in BOOLEAN :
       Settle(drawSectionHeading(LS, SectionHeadingSite(pc).sec, ctxOk),
              SectionHeadingSite(pc).next)
  /\ UNCHANGED <<payload, run, prevPageCount, frame, sIdx, img, outPages, drawnImages,
                 fontLoadPromise, pdfFontLoaded, fontLoads>>
  /\ UNCHANGED otherVars

\* the drawSubHeading calls of the main flow: lines 357, 369, 381
SubHeadingSite(p) ==
  CASE p = "sub1" -> [sec |-> "exp1", next |-> "exp1"]
    [] p = "sub2" -> [sec |-> "exp2", next |-> "exp2"]
    [] p = "sub3" -> [sec |-> "exp3", next |-> "exp3"]

SubHeading ==
  /\ pc \in {"sub1", "sub2", "sub3"}
  /\ \E ctxOk \in BOOLEAN :
       Settle(drawSubHeading(LS, SubHeadingSite(pc).sec, ctxOk), SubHeadingSite(pc).next)
  /\ UNCHANGED <<payload, run, prevPageCount, frame, sIdx, img, outPages, drawnImages,
                 fontLoadPromise, pdfFontLoaded, fontLoads>>
  /\ UNCHANGED otherVars

\* lines 353, 393: current.cursorY += SECTION_GAP
SectionGap ==
  /\ pc \in {"gsGap", "expGap"}
  /\ Settle(Advance(LS, SECTION_GAP), IF pc = "gsGap" THEN "expHeading" ELSE "kwHeading")
  /\ UNCHANGED <<payload, run, prevPageCount, frame, sIdx, img, outPages, drawnImages,
                 fontLoadPromise, pdfFontLoaded, fontLoads>>
  /\ UNCHANGED otherVars

\* ------------------------------------------------------------ block renderers
CurSummary == payload.pageSummaries[sIdx]

ImageUrl == IF img = 1 THEN payload.wordcloudUrl ELSE payload.mindmapImageUrl

\* mutant of ImageSec: the mind-map page is made first
ImageSecSwapped == IF img = 1 THEN "mm" ELSE "wc"

\* lines 557-558: the first call makes the word-cloud page, the second the mind map
ImageSec == IF img = 1 THEN "wc" ELSE "mm"

Site(when, lines, color, gap, cb, ret, sec, n, part) ==
  [when |-> when, lines |-> lines, color |-> color, gap |-> gap, cb |-> cb, ret |-> ret,
   sec |-> sec, n |-> n, part |-> part]

\* `x || placeholder`: an empty expansion is drawn as the one-line placeholder
ExpLines(x) == IF x = 0 THEN 1 ELSE x

ExpPart(x) == IF x = 0 THEN "placeholder" ELSE "text"

ParaPcs ==
  {"gsBody", "exp1", "exp2", "exp3", "kwBody", "psBody", "psKw", "psSkip", "imgBody",
   "imgError"}

\* the drawParagraph call sites: guard, wrapped line count, gapAfter, callback, return
ParaSite(p) ==
  CASE p = "gsBody" ->     \* line 351
         Site(payload.gsBullets = <<>>, 1, MUTED_COLOR, 12, "none", "gsGap", "gs", 0, "placeholder")
    [] p = "exp1" ->       \* lines 358-367
         Site(TRUE, ExpLines(payload.exp[1]), BODY_COLOR, 16, "exp1", "sub2", "exp1", 0,
              ExpPart(payload.exp[1]))
    [] p = "exp2" ->       \* lines 370-379
         Site(TRUE, ExpLines(payload.exp[2]), BODY_COLOR, 16, "exp2", "sub3", "exp2", 0,
              ExpPart(payload.exp[2]))
    [] p = "exp3" ->       \* lines 382-391
         Site(TRUE, ExpLines(payload.exp[3]), BODY_COLOR, 12, "exp3", "expGap", "exp3", 0,
              ExpPart(payload.exp[3]))
    [] p = "kwBody" ->     \* lines 397-412
         IF payload.kwLines > 0
         THEN Site(TRUE, payload.kwLines, BODY_COLOR, 0, "kw", "break", "kw", 0, "keywords")
         ELSE Site(TRUE, 1, MUTED_COLOR, 12, "none", "break", "kw", 0, "placeholder")
    [] p = "psBody" ->     \* lines 465-479
         Site(CurSummary.bullets = <<>>, 1, MUTED_COLOR, 10, "psPara", "psKw", "ps", sIdx, "placeholder")
    [] p = "psKw" ->       \* lines 482-499
         Site(CurSummary.kwLines > 0, CurSummary.kwLines, MUTED_COLOR, 18, "psPara", "psSkip",
              "ps",
              sIdx, "keywords")
    [] p = "psSkip" ->     \* lines 501-516
         Site(CurSummary.skipped /\ CurSummary.skipLines > 0, CurSummary.skipLines,
              MUTED_COLOR, 28,
              "psPara", "psLoop", "ps", sIdx, "skip")
    [] p = "imgBody" ->    \* line 551
         Site(ImageUrl = 0, 1, MUTED_COLOR, 12, "none", "imgCommit", ImageSec, 0, "placeholder")
    [] p = "imgError" ->   \* line 548
         Site(TRUE, ImageUrl, MUTED_COLOR, 12, "none", "imgCommit", ImageSec, 0, "error")

\* lines 177-187: defaults, ctx = context.ctx, lines = wrapLine(...)
DrawParagraphBegin ==
  /\ pc \in ParaPcs
  /\ ParaSite(pc).when
  /\ frame' = [kind |-> "para", ctx |-> current.canvas, items |-> <<ParaSite(pc).lines>>,
               done |-> 0, lineHeight |-> 26, gap |-> ParaSite(pc).gap,
               cb |-> ParaSite(pc).cb, ret |-> ParaSite(pc).ret, sec |-> ParaSite(pc).sec,
               n |-> ParaSite(pc).n, part |-> ParaSite(pc).part,
               color |-> ParaSite(pc).color, handled |-> FALSE]
  /\ pc' = "para"
  /\ UNCHANGED <<payload, run, prevPageCount, pages, canvases, current, sIdx, img,
                 outPages, drawnImages, result, fontLoadPromise, pdfFontLoaded, fontLoads>>
  /\ UNCHANGED otherVars

\* line 189: would this line cross the bottom content boundary
paragraphOverflows(cursorY, lineHeight) == cursorY + lineHeight > PAGE_HEIGHT - MARGIN_BOTTOM

\* mutant of handledOnce: the overflow test is made again after the handler
handledAgain == FALSE

\* lines 189, 223: the overflow test is an `if`, made once per line / bullet
handledOnce == TRUE

\* lines 189-196: the overflow branch of one loop iteration
ParagraphOverflow ==
  /\ pc = "para"
  /\ frame.done < frame.items[1]
  /\ ~frame.handled
  /\ paragraphOverflows(current.cursorY, frame.lineHeight)
  /\ \E ctxOk \in BOOLEAN :
       LET R == onOverflow(LS, frame.cb, frame.n, ctxOk)
       IN  /\ Settle(R, "para")
           /\ frame' = [frame EXCEPT !.ctx = reacquireCtx(R, frame.ctx), !.handled = handledOnce]
  /\ UNCHANGED <<payload, run, prevPageCount, sIdx, img, outPages, drawnImages, fontLoadPromise,
                 pdfFontLoaded, fontLoads>>
  /\ UNCHANGED otherVars

\* lines 197-198: ctx.fillText(line, ...); context.cursorY += lineHeight
ParagraphLine ==
  /\ pc = "para"
  /\ frame.done < frame.items[1]
  /\ frame.handled \/ ~paragraphOverflows(current.cursorY, frame.lineHeight)
  /\ Settle(Advance(Paint(LS, frame.ctx,
                          [Op(frame.part, current.cursorY, frame.lineHeight, frame.sec,
                              frame.n, 0, frame.done + 1) EXCEPT !.color = frame.color]),
                    frame.lineHeight), "para")
  /\ frame' = [frame EXCEPT !.done = @ + 1, !.handled = FALSE]
  /\ UNCHANGED <<payload, run, prevPageCount, sIdx, img, outPages, drawnImages, fontLoadPromise,
                 pdfFontLoaded, fontLoads>>
  /\ UNCHANGED otherVars

\* lines 200-201: context.cursorY += gapAfter
DrawParagraphEnd ==
  /\ pc = "para"
  /\ frame.done = frame.items[1]
  /\ Settle(Advance(LS, frame.gap), frame.ret)
  /\ frame' = NoFrame
  /\ UNCHANGED <<payload, run, prevPageCount, sIdx, img, outPages, drawnImages, fontLoadPromise,
                 pdfFontLoaded, fontLoads>>
  /\ UNCHANGED otherVars

BulletPcs == {"gsBody", "psBody"}

\* the drawBulletList call sites: lines 345-349 and 445-463
BulletSite(p) ==
  CASE p = "gsBody" ->
         [when |-> payload.gsBullets # <<>>, items |-> payload.gsBullets, cb |-> "gs",
          ret |-> "gsGap", sec |-> "gs", n |-> 0]
    [] p = "psBody" ->
         [when |-> CurSummary.bullets # <<>>, items |-> CurSummary.bullets,
          cb |-> "psBullets", ret |-> "psKw", sec |-> "ps", n |-> sIdx]

\* lines 210-217
DrawBulletListBegin ==
  /\ pc \in BulletPcs
  /\ BulletSite(pc).when
  /\ frame' = [kind |-> "bullets", ctx |-> current.canvas, items |-> BulletSite(pc).items,
               done |-> 0, lineHeight |-> 26, gap |-> 10, cb |-> BulletSite(pc).cb,
               ret |-> BulletSite(pc).ret, sec |-> BulletSite(pc).sec,
               n |-> BulletSite(pc).n, part |-> "bullets", color |-> BODY_COLOR,
               handled |-> FALSE]
  /\ pc' = "bullets"
  /\ UNCHANGED <<payload, run, prevPageCount, pages, canvases, current, sIdx, img,
                 outPages, drawnImages, result, fontLoadPromise, pdfFontLoaded, fontLoads>>
  /\ UNCHANGED otherVars

\* mutant of bulletHeight: the overflow check looks at the first line only
firstLineHeight(lines, lineHeight) == lineHeight

\* line 222: the height the overflow check of a bullet uses
bulletHeight(lines, lineHeight) == Max(lineHeight, lines * lineHeight)

\* lines 223-230: the overflow branch of one bullet
BulletOverflow ==
  /\ pc = "bullets"
  /\ frame.done < Len(frame.items)
  /\ ~frame.handled
  /\ current.cursorY + bulletHeight(frame.items[frame.done + 1], frame.lineHeight)
       > PAGE_HEIGHT - MARGIN_BOTTOM
  /\ \E ctxOk \in BOOLEAN :
       LET R == onOverflow(LS, frame.cb, frame.n, ctxOk)
       IN  /\ Settle(R, "bullets")
           /\ frame' = [frame EXCEPT !.ctx = reacquireCtx(R, frame.ctx), !.handled = handledOnce]
  /\ UNCHANGED <<payload, run, prevPageCount, sIdx, img, outPages, drawnImages, fontLoadPromise,
                 pdfFontLoaded, fontLoads>>
  /\ UNCHANGED otherVars

\* lines 232-241: the glyph, the bullet's lines, the cursor advance
bulletOps(cursorY, lines, lineHeight, sec, n, i) ==
  <<Op("glyph", cursorY, lineHeight, sec, n, i, 0)>>
  \o [j \in 1..lines |-> Op("bline", cursorY + (j - 1) * lineHeight, lineHeight, sec, n, i, j)]

BulletDraw ==
  /\ pc = "bullets"
  /\ frame.done < Len(frame.items)
  /\ \/ frame.handled
     \/ current.cursorY + bulletHeight(frame.items[frame.done + 1], frame.lineHeight)
          <= PAGE_HEIGHT - MARGIN_BOTTOM
  /\ LET lines == frame.items[frame.done + 1]
         lineCursor == current.cursorY + lines * frame.lineHeight
         after == Max(current.cursorY + bulletHeight(lines, frame.lineHeight), lineCursor)
                    + frame.gap
         R == [LS EXCEPT
                 !.canvases[frame.ctx] =
                    @ \o bulletOps(current.cursorY, lines, frame.lineHeight, frame.sec,
                                   frame.n, frame.done + 1),
                 !.current.cursorY = after]
     IN  Settle(R, "bullets")
  /\ frame' = [frame EXCEPT !.done = @ + 1, !.handled = FALSE]
  /\ UNCHANGED <<payload, run, prevPageCount, sIdx, img, outPages, drawnImages, fontLoadPromise,
                 pdfFontLoaded, fontLoads>>
  /\ UNCHANGED otherVars

\* line 244
DrawBulletListEnd ==
  /\ pc = "bullets"
  /\ frame.done = Len(frame.items)
  /\ pc' = frame.ret
  /\ frame' = NoFrame
  /\ UNCHANGED <<payload, run, prevPageCount, pages, canvases, current, sIdx, img,
                 outPages, drawnImages, result, fontLoadPromise, pdfFontLoaded, fontLoads>>
  /\ UNCHANGED otherVars

\* ---------------------------------------------------------- page summaries
\* lines 414-426: the forced page break and the first section heading
\* mutant of forcedBreak: the page is broken only when little room is left
forcedBreakIfShort(L, ctxOk) == ensureSpace(L, 120, ctxOk)

\* line 414: commitPage() between the aggregated keywords and the page summaries
forcedBreak(L, ctxOk) == commitPage(L, ctxOk)

BeginPageSummaries ==
  /\ pc = "break"
  /\ \E ctxOk \in BOOLEAN :
       Settle(drawPageSummaryHeading(forcedBreak(LS, ctxOk)), "psLoop")
  /\ sIdx' = 0
  /\ UNCHANGED <<payload, run, prevPageCount, frame, img, outPages, drawnImages,
                 fontLoadPromise, pdfFontLoaded, fontLoads>>
  /\ UNCHANGED otherVars

\* lines 428-443: the head of one loop iteration
summaryHead(L, n, ctxOk) == drawPageHeading(ensureSpace(L, 160, ctxOk), n, TRUE)

SummaryHeading ==
  /\ pc = "psLoop"
  /\ sIdx < Len(payload.pageSummaries)
  /\ \E ctxOk \in BOOLEAN : Settle(summaryHead(LS, sIdx + 1, ctxOk), "psBody")
  /\ sIdx' = sIdx + 1
  /\ UNCHANGED <<payload, run, prevPageCount, frame, img, outPages, drawnImages,
                 fontLoadPromise, pdfFontLoaded, fontLoads>>
  /\ UNCHANGED otherVars

\* line 482: no keywords, nothing is drawn
SkipKeywords ==
  /\ pc = "psKw"
  /\ ~ParaSite(pc).when
  /\ pc' = "psSkip"
  /\ UNCHANGED <<payload, run, prevPageCount, pages, canvases, current, frame, sIdx,
                 img, outPages, drawnImages, result, fontLoadPromise, pdfFontLoaded, fontLoads>>
  /\ UNCHANGED otherVars

\* lines 517-519: current.cursorY += 18
SpacerAdvance ==
  /\ pc = "psSkip"
  /\ ~ParaSite(pc).when
  /\ Settle(Advance(LS, 18), "psLoop")
  /\ UNCHANGED <<payload, run, prevPageCount, frame, sIdx, img, outPages, drawnImages,
                 fontLoadPromise, pdfFontLoaded, fontLoads>>
  /\ UNCHANGED otherVars

\* line 522
EndPageSummaries ==
  /\ pc = "psLoop"
  /\ sIdx = Len(payload.pageSummaries)
  /\ \E ctxOk \in BOOLEAN : Settle(commitPage(LS, ctxOk), "imgHead")
  /\ img' = 1
  /\ UNCHANGED <<payload, run, prevPageCount, frame, sIdx, outPages, drawnImages,
                 fontLoadPromise, pdfFontLoaded, fontLoads>>
  /\ UNCHANGED otherVars

\* ------------------------------------------------------------ drawImagePage
\* mutant of imageHead: a page is finalized even when the cursor is at the top
imageHeadAlwaysCommit(L, sec, ctxOk) ==
  LET E == commitPage(L, ctxOk)
  IN  IF E.threw THEN E
      ELSE Advance(Paint(E, E.current.canvas,
                         Op("imgHeading", E.current.cursorY, 40, sec, 0, 0, 0)), 40)

\* lines 525-535
imageHead(L, sec, ctxOk) ==
  LET E == IF L.current.cursorY # MARGIN_TOP THEN commitPage(L, ctxOk) ELSE L
  IN  IF E.threw THEN E
      ELSE Advance(Paint(E, E.current.canvas,
                         Op("imgHeading", E.current.cursorY, 40, sec, 0, 0, 0)), 40)

ImageHeading ==
  /\ pc = "imgHead"
  /\ \E ctxOk \in BOOLEAN :
       Settle(imageHead(LS, ImageSec, ctxOk), IF ImageUrl # 0 THEN "imgLoad" ELSE "imgBody")
  /\ UNCHANGED <<payload, run, prevPageCount, frame, sIdx, img, outPages, drawnImages,
                 fontLoadPromise, pdfFontLoaded, fontLoads>>
  /\ UNCHANGED otherVars

\* lines 540-544: scale = min(availableWidth / w, availableHeight / h, 1), as a fraction
\* mutant of imageScale: only the width is fitted
imageScaleWidthOnly(w, h) ==
  LET availableWidth == PAGE_WIDTH - MARGIN_X * 2
  IN  IF w <= availableWidth THEN [num |-> 1, den |-> 1]
      ELSE [num |-> availableWidth, den |-> w]

imageScale(w, h) ==
  LET availableWidth == PAGE_WIDTH - MARGIN_X * 2
      availableHeight == PAGE_HEIGHT - MARGIN_TOP - MARGIN_BOTTOM - 80
  IN  IF w <= availableWidth /\ h <= availableHeight THEN [num |-> 1, den |-> 1]
      ELSE IF availableWidth * h <= availableHeight * w
           THEN [num |-> availableWidth, den |-> w]
           ELSE [num |-> availableHeight, den |-> h]

CeilDiv(a, b) == (a + b - 1) \div b

\* line 543: drawWidth = image.width * scale
drawWidth(w, sc) == FracMul(Frac(sc.num, sc.den), w)

\* line 544: drawHeight = image.height * scale
drawHeight(h, sc) == FracMul(Frac(sc.num, sc.den), h)

\* lines 539-546: loadImage resolved; the image is drawn at the cursor
LoadImageOk ==
  /\ pc = "imgLoad"
  /\ \E size \in ImageSizes :
       LET sc == imageScale(size[1], size[2])
       IN  /\ Settle(Paint(LS, current.canvas,
                           Op("image", current.cursorY, CeilDiv(size[2] * sc.num, sc.den),
                              ImageSec, 0, 0, 0)), "imgCommit")
           /\ drawnImages' = Append(drawnImages,
                                    [sec |-> ImageSec, width |-> size[1], height |-> size[2],
                                     num |-> sc.num, den |-> sc.den,
                                     drawWidth |-> drawWidth(size[1], sc),
                                     drawHeight |-> drawHeight(size[2], sc)])
  /\ UNCHANGED <<payload, run, prevPageCount, frame, sIdx, img, outPages,
                 fontLoadPromise, pdfFontLoaded, fontLoads>>
  /\ UNCHANGED otherVars

\* mutant of imageLoadCatch: the rejection is not caught
imageLoadUncaught == "rejected"

\* lines 538, 547: where a rejected loadImage takes the invocation
imageLoadCatch == "imgError"

\* lines 547-549: loadImage rejected; the catch block draws the message
LoadImageFail ==
  /\ pc = "imgLoad"
  /\ pc' = imageLoadCatch
  /\ result' = IF pc' = "rejected" THEN "error" ELSE result
  /\ UNCHANGED <<payload, run, prevPageCount, pages, canvases, current, frame, sIdx,
                 img, outPages, drawnImages, fontLoadPromise, pdfFontLoaded, fontLoads>>
  /\ UNCHANGED otherVars

\* mutant of imageTail: the image section leaves its page open
imageTailNoCommit(L, ctxOk) == L

\* line 554: the page of the image section is finalized
imageTail(L, ctxOk) == commitPage(L, ctxOk)

\* line 554, and the return to lines 557-558
ImageCommit ==
  /\ pc = "imgCommit"
  /\ \E ctxOk \in BOOLEAN :
       Settle(imageTail(LS, ctxOk), IF img = 1 THEN "imgHead" ELSE "assemble")
  /\ img' = IF img = 1 THEN 2 ELSE img
  /\ UNCHANGED <<payload, run, prevPageCount, frame, sIdx, outPages, drawnImages,
                 fontLoadPromise, pdfFontLoaded, fontLoads>>
  /\ UNCHANGED otherVars

\* -------------------------------------------------------- document assembly
\* lines 561-573: one iteration; pngOk is whether canvas.toBlob gave a blob
\* mutant of placeImage: the image is put at the bottom left corner
placeImageAtOrigin(pageHeight, scaled) ==
  [x |-> Frac(0, 1), y |-> Frac(0, 1), width |-> scaled.width, height |-> scaled.height]

\* lines 567-572: the options of page.drawImage (PDF y grows upwards)
placeImage(pageHeight, scaled) ==
  [x |-> Frac(0, 1), y |-> FracSub(Frac(pageHeight, 1), scaled.height),
   width |-> scaled.width, height |-> scaled.height]

\* line 566: pngImage.scale(scale) of the PAGE_WIDTH x PAGE_HEIGHT canvas image
scalePng(scale) ==
  [width |-> FracMul(scale, PAGE_WIDTH), height |-> FracMul(scale, PAGE_HEIGHT)]

\* lines 564-572: the page added for canvas c and the one image drawn on it
pdfPage(c) ==
  LET scale == Frac(PDF_PAGE_WIDTH, PAGE_WIDTH)
  IN  [canvas |-> c,
       size |-> <<PDF_PAGE_WIDTH, PDF_PAGE_HEIGHT>>,
       images |-> <<[canvas |-> c] @@ placeImage(PDF_PAGE_HEIGHT, scalePng(scale))>>]

AssemblePage ==
  /\ pc = "assemble"
  /\ Len(outPages) < Len(pages)
  /\ \E pngOk \in BOOLEAN :
       IF pngOk
       THEN /\ outPages' = Append(outPages, pdfPage(pages[Len(outPages) + 1]))
            /\ UNCHANGED <<pc, result>>
       ELSE /\ pc' = "rejected"
            /\ result' = "error"
            /\ UNCHANGED outPages
  /\ UNCHANGED <<payload, run, prevPageCount, pages, canvases, current, frame, sIdx,
                 img, drawnImages, fontLoadPromise, pdfFontLoaded, fontLoads>>
  /\ UNCHANGED otherVars

\* line 575
SavePdf ==
  /\ pc = "assemble"
  /\ Len(outPages) = Len(pages)
  /\ pc' = "done"
  /\ result' = "bytes"
  /\ UNCHANGED <<payload, run, prevPageCount, pages, canvases, current, frame, sIdx,
                 img, outPages, drawnImages, fontLoadPromise, pdfFontLoaded, fontLoads>>
  /\ UNCHANGED otherVars

\* the caller invokes generateAnalysisPdf again, with a payload that holds more
InvokeAgain ==
  /\ pc = "done"
  /\ run < MaxRuns
  /\ payload' \in {[Q EXCEPT !.fontUrl = u] :
                    Q \in Grow(payload),
                    u \in IF fontLoads # <<>> THEN BOOLEAN ELSE {payload.fontUrl}}
  /\ run' = run + 1
  /\ prevPageCount' = Len(pages)
  /\ pc' = "font"
  /\ pages' = <<>>
  /\ canvases' = <<>>
  /\ current' = NoPage
  /\ frame' = NoFrame
  /\ sIdx' = 0
  /\ img' = 1
  /\ outPages' = <<>>
  /\ drawnImages' = <<>>
  /\ result' = "none"
  /\ UNCHANGED <<fontLoadPromise, pdfFontLoaded, fontLoads>>
  /\ UNCHANGED otherVars

Next ==
  \/ EnsurePrimaryFont \/ FontLoadSettled \/ FontResume
  \/ CreateFirstPage \/ DrawTitleBlock \/ SectionHeading \/ SubHeading \/ SectionGap
  \/ DrawParagraphBegin \/ ParagraphOverflow \/ ParagraphLine \/ DrawParagraphEnd
  \/ DrawBulletListBegin \/ BulletOverflow \/ BulletDraw \/ DrawBulletListEnd
  \/ BeginPageSummaries \/ SummaryHeading \/ SkipKeywords \/ SpacerAdvance
  \/ EndPageSummaries
  \/ ImageHeading \/ LoadImageOk \/ LoadImageFail \/ ImageCommit
  \/ AssemblePage \/ SavePdf
  \/ InvokeAgain

Spec == Init /\ [][Next]_vars

\* the steps of an invocation; when the caller invokes again is up to the caller
RunStep ==
  \/ EnsurePrimaryFont \/ FontLoadSettled \/ FontResume
  \/ CreateFirstPage \/ DrawTitleBlock \/ SectionHeading \/ SubHeading \/ SectionGap
  \/ DrawParagraphBegin \/ ParagraphOverflow \/ ParagraphLine \/ DrawParagraphEnd
  \/ DrawBulletListBegin \/ BulletOverflow \/ BulletDraw \/ DrawBulletListEnd
  \/ BeginPageSummaries \/ SummaryHeading \/ SkipKeywords \/ SpacerAdvance
  \/ EndPageSummaries
  \/ ImageHeading \/ LoadImageOk \/ LoadImageFail \/ ImageCommit
  \/ AssemblePage \/ SavePdf

\* synchronous code runs on, and every awaited promise settles
FairSpec == Spec /\ WF_vars(RunStep)

\* ================================================================ wrapLine
\* A text is a sequence of characters; ctx.measureText is the sum of the
\* characters' advance widths, in units in which a letter and a space are 1
\* wide and the wide glyph "W" is 3 wide.
Chars == {"a", " ", "W", "\n", "\r"}

Texts == UNION {[1..k -> Chars] : k \in 0..MaxTextLen}

CharWidth(ch) == IF ch = "W" THEN 3 ELSE 1

RECURSIVE measureText(_)
measureText(t) == IF t = <<>> THEN 0 ELSE CharWidth(t[1]) + measureText(Tail(t))

\* text.replace(/\r\n/g, "\n")
RECURSIVE replaceCRLF(_)
replaceCRLF(t) ==
  IF t = <<>> THEN <<>>
  ELSE IF Len(t) >= 2 /\ t[1] = "\r" /\ t[2] = "\n"
       THEN <<"\n">> \o replaceCRLF(SubSeq(t, 3, Len(t)))
       ELSE <<t[1]>> \o replaceCRLF(Tail(t))

\* .replace(/\r/g, "\n")
replaceCR(t) == [x \in 1..Len(t) |-> IF t[x] = "\r" THEN "\n" ELSE t[x]]

sanitize(text) == replaceCR(replaceCRLF(text))

\* sanitized.split("\n")
RECURSIVE split(_)
split(t) ==
  IF t = <<>> THEN << <<>> >>
  ELSE LET r == split(SubSeq(t, 1, Len(t) - 1))
       IN  IF Last(t) = "\n" THEN Append(r, <<>>)
           ELSE [r EXCEPT ![Len(r)] = Append(@, Last(t))]

\* mutant of fits: the width test looks at the line built so far
fitsBefore(cur, char, maxWidth) ==
  measureText(cur) <= maxWidth \/ Len(cur) = 0

\* line 152: width <= maxWidth || current.length === 0
fits(cur, char, maxWidth) ==
  measureText(Append(cur, char)) <= maxWidth \/ Len(cur) = 0

\* mutant of restart: the character that did not fit is dropped
restartEmpty(char) == <<>>

\* line 156: current = char === " " ? "" : char
restart(char) == IF char = " " THEN <<>> ELSE <<char>>

\* lines 149-157: one iteration of the character loop on st = [lines, current]
wrapChar(st, char, maxWidth) ==
  IF fits(st.current, char, maxWidth)
  THEN [st EXCEPT !.current = Append(@, char)]
  ELSE [lines |-> Append(st.lines, st.current), current |-> restart(char)]

\* the character loop over the first k characters of rawLine
RECURSIVE wrapChars(_, _, _, _)
wrapChars(lines, rawLine, k, maxWidth) ==
  IF k = 0 THEN [lines |-> lines, current |-> <<>>]
  ELSE wrapChar(wrapChars(lines, rawLine, k - 1, maxWidth), rawLine[k], maxWidth)

\* mutant of flush: an empty segment pushes nothing
flushNoBlank(st, rawLine) ==
  IF st.current # <<>> THEN Append(st.lines, st.current) ELSE st.lines

\* lines 159-163: what is pushed when the segment ends
flush(st, rawLine) ==
  IF st.current # <<>> THEN Append(st.lines, st.current)
  ELSE IF Len(rawLine) = 0 THEN Append(st.lines, <<>>)
  ELSE st.lines

\* lines 147-164: the loop over the first k segments
RECURSIVE wrapSegments(_, _, _)
wrapSegments(segs, k, maxWidth) ==
  IF k = 0 THEN <<>>
  ELSE flush(wrapChars(wrapSegments(segs, k - 1, maxWidth), segs[k], Len(segs[k]),
                       maxWidth),
             segs[k])

wrapLine(text, maxWidth) ==
  IF text = <<>> THEN << <<>> >>
  ELSE LET segs == split(sanitize(text))
       IN  wrapSegments(segs, Len(segs), maxWidth)

\* no invocation of generateAnalysisPdf is being followed
LayoutIdle ==
  /\ payload = EmptyPayload
  /\ run = 1
  /\ prevPageCount = 0
  /\ pc = "idle"
  /\ pages = <<>>
  /\ canvases = <<>>
  /\ current = NoPage
  /\ frame = NoFrame
  /\ sIdx = 0
  /\ img = 1
  /\ outPages = <<>>
  /\ drawnImages = <<>>
  /\ result = "none"
  /\ fontLoadPromise = "null"
  /\ pdfFontLoaded = FALSE
  /\ fontLoads = <<>>

InitWrap ==
  /\ LayoutIdle
  /\ FontCallsIdle
  /\ PageIdle
  /\ StreamIdle
  /\ wrapText \in Texts
  /\ wrapMaxWidth \in 1..MaxWidth
  /\ wrapResult = <<>>
  /\ wrapPc = "call"

CallWrapLine ==
  /\ wrapPc = "call"
  /\ wrapResult' = wrapLine(wrapText, wrapMaxWidth)
  /\ wrapPc' = "returned"
  /\ UNCHANGED <<wrapText, wrapMaxWidth>>
  /\ UNCHANGED notWrapVars

NextWrap == CallWrapLine

SpecWrap == InitWrap /\ [][NextWrap]_vars

\* ---------------------------------------------------------------------------
\* ensurePrimaryFont under overlapping invocations of generateAnalysisPdf.
\* Every invocation passes a font URL in an environment that supports
\* FontFace. Code runs to completion between awaits: a call runs inside the
\* code of the caller (a task, or a microtask the caller queued) up to its
\* first await; the continuation of an await is a job of the microtask queue,
\* run in the order queued once the running code has finished; the browser
\* settles a pending load in a task of its own, when the queue is empty.

Job(t, n) == [t |-> t, n |-> n]

\* the reactions of a promise that settles: one job per waiter, in the order
\* they began to wait
Resumes(waiters) == [k \in 1..Len(waiters) |-> Job("resume", waiters[k])]

CallerJobs == {k \in 1..Len(microtasks) : microtasks[k].t = "caller"}

InitFontCalls ==
  /\ LayoutIdle
  /\ WrapIdle
  /\ PageIdle
  /\ StreamIdle
  /\ calls = [i \in 1..MaxCalls |-> "idle"]
  /\ microtasks = <<>>
  /\ fontLoadPromiseRef = 0
  /\ pdfFontLoadedFlag = FALSE
  /\ attempts = <<>>
  /\ fontsAdded = 0
  /\ callerRunning = FALSE

\* a task of the caller begins (an event handler, a timer)
BeginCallerTask ==
  /\ ~callerRunning
  /\ microtasks = <<>>
  /\ callerRunning' = TRUE
  /\ UNCHANGED <<calls, microtasks, fontLoadPromiseRef, pdfFontLoadedFlag, attempts,
                 fontsAdded>>
  /\ UNCHANGED notFontCallVars

\* the running code of the caller queues a microtask of its own
QueueCallerJob ==
  /\ callerRunning
  /\ Cardinality(CallerJobs) < MaxCallerJobs
  /\ microtasks' = Append(microtasks, Job("caller", 0))
  /\ UNCHANGED <<calls, fontLoadPromiseRef, pdfFontLoadedFlag, attempts, fontsAdded,
                 callerRunning>>
  /\ UNCHANGED notFontCallVars

\* a microtask of the caller starts to run
RunCallerJob ==
  /\ ~callerRunning
  /\ microtasks # <<>>
  /\ Head(microtasks).t = "caller"
  /\ callerRunning' = TRUE
  /\ microtasks' = Tail(microtasks)
  /\ UNCHANGED <<calls, fontLoadPromiseRef, pdfFontLoadedFlag, attempts, fontsAdded>>
  /\ UNCHANGED notFontCallVars

\* the running code of the caller returns
EndCallerCode ==
  /\ callerRunning
  /\ callerRunning' = FALSE
  /\ UNCHANGED <<calls, microtasks, fontLoadPromiseRef, pdfFontLoadedFlag, attempts,
                 fontsAdded>>
  /\ UNCHANGED notFontCallVars

\* lines 57-81: the caller invokes generateAnalysisPdf, which runs
\* ensurePrimaryFont up to `await fontLoadPromise`. badUrl: `url(${fontUrl})`
\* does not parse, so that fontFace.load() returns a promise already rejected
\* and the continuation of its await is queued at once.
CallEnsurePrimaryFont(i, badUrl) ==
  /\ callerRunning
  /\ calls[i] = "idle"
  /\ \A j \in 1..(i - 1) : calls[j] # "idle"
  /\ LET start == ~pdfFontLoadedFlag /\ fontLoadPromiseRef = 0
         attempt == [status |-> IF badUrl THEN "failed" ELSE "loading",
                     waiters |-> <<>>]
         started == IF start THEN Append(attempts, attempt) ELSE attempts
         queued == IF start /\ badUrl
                   THEN Append(microtasks, Job("failed", Len(started)))
                   ELSE microtasks
         p == IF start THEN Len(started) ELSE fontLoadPromiseRef
     IN  /\ badUrl => start
         /\ IF pdfFontLoadedFlag
            THEN /\ calls' = [calls EXCEPT ![i] = "returned"]
                 /\ UNCHANGED <<fontLoadPromiseRef, attempts, microtasks>>
            ELSE /\ calls' = [calls EXCEPT ![i] = "awaiting"]
                 /\ fontLoadPromiseRef' = p
                 /\ IF started[p].status = "settled"
                    THEN /\ attempts' = started
                         /\ microtasks' = Append(queued, Job("resume", i))
                    ELSE /\ attempts' = [started EXCEPT ![p].waiters = Append(@, i)]
                         /\ microtasks' = queued
  /\ UNCHANGED <<pdfFontLoadedFlag, fontsAdded, callerRunning>>
  /\ UNCHANGED notFontCallVars

\* lines 80-88: ensurePrimaryFont after `await fontLoadPromise`
ResumeEnsurePrimaryFont ==
  /\ ~callerRunning
  /\ microtasks # <<>>
  /\ Head(microtasks).t = "resume"
  /\ calls' = [calls EXCEPT ![Head(microtasks).n] = "returned"]
  /\ fontLoadPromiseRef' = IF pdfFontLoadedFlag THEN fontLoadPromiseRef ELSE 0
  /\ microtasks' = Tail(microtasks)
  /\ UNCHANGED <<pdfFontLoadedFlag, attempts, fontsAdded, callerRunning>>
  /\ UNCHANGED notFontCallVars

\* line 68: the browser settles the promise of fontFace.load(); the
\* continuation of the await is queued
FontFaceLoadSettles(l, ok) ==
  /\ ~callerRunning
  /\ microtasks = <<>>
  /\ attempts[l].status = "loading"
  /\ attempts' = [attempts EXCEPT ![l].status = IF ok THEN "loaded" ELSE "failed"]
  /\ microtasks' = Append(microtasks, Job(IF ok THEN "loaded" ELSE "failed", l))
  /\ UNCHANGED <<calls, fontLoadPromiseRef, pdfFontLoadedFlag, fontsAdded,
                 callerRunning>>
  /\ UNCHANGED notFontCallVars

\* lines 69-70: document.fonts.add(loaded), up to `await document.fonts.ready`.
\* readyNow: document.fonts.ready is fulfilled already.
AddFont(readyNow) ==
  /\ ~callerRunning
  /\ microtasks # <<>>
  /\ Head(microtasks).t = "loaded"
  /\ fontsAdded' = fontsAdded + 1
  /\ LET l == Head(microtasks).n
     IN  /\ attempts' = [attempts EXCEPT ![l].status =
                                           IF readyNow THEN "ready" ELSE "added"]
         /\ microtasks' = IF readyNow THEN Append(Tail(microtasks), Job("ready", l))
                          ELSE Tail(microtasks)
  /\ UNCHANGED <<calls, fontLoadPromiseRef, pdfFontLoadedFlag, callerRunning>>
  /\ UNCHANGED notFontCallVars

\* line 70: the browser fulfils document.fonts.ready; the continuation is queued
FontsReady(l) ==
  /\ ~callerRunning
  /\ microtasks = <<>>
  /\ attempts[l].status = "added"
  /\ attempts' = [attempts EXCEPT ![l].status = "ready"]
  /\ microtasks' = Append(microtasks, Job("ready", l))
  /\ UNCHANGED <<calls, fontLoadPromiseRef, pdfFontLoadedFlag, fontsAdded,
                 callerRunning>>
  /\ UNCHANGED notFontCallVars

\* line 71: pdfFontLoaded = true; the load promise is fulfilled
LoadSucceeds ==
  /\ ~callerRunning
  /\ microtasks # <<>>
  /\ Head(microtasks).t = "ready"
  /\ LET l == Head(microtasks).n
     IN  /\ attempts' = [attempts EXCEPT ![l].status = "settled", ![l].waiters = <<>>]
         /\ microtasks' = Tail(microtasks) \o Resumes(attempts[l].waiters)
  /\ pdfFontLoadedFlag' = TRUE
  /\ UNCHANGED <<calls, fontLoadPromiseRef, fontsAdded, callerRunning>>
  /\ UNCHANGED notFontCallVars

\* lines 72-75: catch: pdfFontLoaded = false; the load promise is fulfilled
LoadFails ==
  /\ ~callerRunning
  /\ microtasks # <<>>
  /\ Head(microtasks).t = "failed"
  /\ LET l == Head(microtasks).n
     IN  /\ attempts' = [attempts EXCEPT ![l].status = "settled", ![l].waiters = <<>>]
         /\ microtasks' = Tail(microtasks) \o Resumes(attempts[l].waiters)
  /\ pdfFontLoadedFlag' = FALSE
  /\ UNCHANGED <<calls, fontLoadPromiseRef, fontsAdded, callerRunning>>
  /\ UNCHANGED notFontCallVars

NextFontCalls ==
  \/ BeginCallerTask
  \/ QueueCallerJob
  \/ RunCallerJob
  \/ EndCallerCode
  \/ \E i \in 1..MaxCalls, badUrl \in BOOLEAN : CallEnsurePrimaryFont(i, badUrl)
  \/ ResumeEnsurePrimaryFont
  \/ \E l \in 1..Len(attempts), ok \in BOOLEAN : FontFaceLoadSettles(l, ok)
  \/ \E readyNow \in BOOLEAN : AddFont(readyNow)
  \/ \E l \in 1..Len(attempts) : FontsReady(l)
  \/ LoadSucceeds
  \/ LoadFails

SpecFontCalls == InitFontCalls /\ [][NextFontCalls]_vars

\* ---------------------------------------------------------------------------
\* The upload page (page.tsx): the handlers of file selection, reset, analyze
\* and mind map, and the arrival of the responses. A file is a number of
\* 1..MaxFiles; a result is the number of the file it was produced from. Each
\* handler runs with the state of the latest render.

InitPage ==
  /\ LayoutIdle
  /\ WrapIdle
  /\ FontCallsIdle
  /\ StreamIdle
  /\ PageIdle

\* lines 246-265: handleFilesSelected with a non-empty list whose first file is f
handleFilesSelected(f, several) ==
  /\ error' = IF several THEN "oneFileOnly" ELSE "null"
  /\ selectedFiles' = f
  /\ mindmapError' = "null"
  /\ analysisResult' = 0
  /\ mindmapResult' = 0
  /\ analysisCompleteMessage' = FALSE
  /\ analysisProgress' = FALSE
  /\ UNCHANGED <<isAnalyzing, isMindmapLoading, activeFeature, settingsOpen, apiKey,
                 progressTimer, analyzeRequest, mindmapRequest>>
  /\ UNCHANGED notPageVars

\* lines 484-493
resetSelection ==
  /\ selectedFiles' = 0
  /\ analysisResult' = 0
  /\ mindmapResult' = 0
  /\ error' = "null"
  /\ mindmapError' = "null"
  /\ activeFeature' = "summary"
  /\ analysisCompleteMessage' = FALSE
  /\ analysisProgress' = FALSE
  /\ UNCHANGED <<isAnalyzing, isMindmapLoading, settingsOpen, apiKey, progressTimer,
                 analyzeRequest, mindmapRequest>>
  /\ UNCHANGED notPageVars

\* lines 289-319: handleAnalyze up to `await fetch`; the button is disabled
\* while isAnalyzing (line 992)
handleAnalyze ==
  /\ ~isAnalyzing
  /\ IF selectedFiles = 0
     THEN /\ error' = "selectFile"
          /\ UNCHANGED <<isAnalyzing, analysisCompleteMessage, mindmapError,
                         activeFeature, analysisProgress, analyzeRequest, settingsOpen>>
     ELSE IF ~apiKey
     THEN /\ error' = "setApiKey"
          /\ settingsOpen' = TRUE
          /\ UNCHANGED <<isAnalyzing, analysisCompleteMessage, mindmapError,
                         activeFeature, analysisProgress, analyzeRequest>>
     ELSE /\ isAnalyzing' = TRUE
          /\ analysisCompleteMessage' = FALSE
          /\ error' = "null"
          /\ mindmapError' = "null"
          /\ activeFeature' = "summary"
          /\ analysisProgress' = TRUE
          /\ analyzeRequest' = selectedFiles
          /\ UNCHANGED settingsOpen
  /\ UNCHANGED <<selectedFiles, isMindmapLoading, analysisResult, mindmapResult, apiKey,
                 progressTimer, mindmapRequest>>
  /\ UNCHANGED notPageVars

\* lines 321-422: the /analyze response has been read. ok: a result was
\* received and no error (lines 400-411), otherwise the catch (lines 412-419)
analyzeResponse(ok) ==
  /\ analyzeRequest # 0
  /\ IF ok
     THEN /\ analysisResult' = analyzeRequest
          /\ analysisCompleteMessage' = TRUE
          /\ progressTimer' = TRUE
          /\ UNCHANGED <<error, analysisProgress>>
     ELSE /\ error' = "analyzeFailed"
          /\ analysisResult' = 0
          /\ analysisCompleteMessage' = FALSE
          /\ analysisProgress' = FALSE
          /\ UNCHANGED progressTimer
  /\ mindmapResult' = 0
  /\ isAnalyzing' = FALSE
  /\ analyzeRequest' = 0
  /\ UNCHANGED <<selectedFiles, isMindmapLoading, activeFeature, mindmapError,
                 settingsOpen, apiKey, mindmapRequest>>
  /\ UNCHANGED notPageVars

\* line 411: the timeout set when the analysis completed
progressTimeout ==
  /\ progressTimer
  /\ progressTimer' = FALSE
  /\ analysisProgress' = FALSE
  /\ UNCHANGED <<selectedFiles, isAnalyzing, isMindmapLoading, analysisResult,
                 mindmapResult, activeFeature, error, mindmapError, settingsOpen, apiKey,
                 analysisCompleteMessage, analyzeRequest, mindmapRequest>>
  /\ UNCHANGED notPageVars

\* lines 174-185: the message is cleared after four seconds
messageTimeout ==
  /\ analysisCompleteMessage
  /\ analysisCompleteMessage' = FALSE
  /\ UNCHANGED <<selectedFiles, isAnalyzing, isMindmapLoading, analysisResult,
                 mindmapResult, activeFeature, error, mindmapError, settingsOpen, apiKey,
                 analysisProgress, progressTimer, analyzeRequest, mindmapRequest>>
  /\ UNCHANGED notPageVars

\* lines 425-448: ensureMindmap up to `await fetch`, on the state after the
\* feature was set
ensureMindmap(feature) ==
  /\ activeFeature' = feature
  /\ IF selectedFiles = 0
     THEN /\ mindmapError' = "selectFile"
          /\ UNCHANGED <<isMindmapLoading, mindmapRequest>>
     ELSE IF mindmapResult # 0 \/ isMindmapLoading
     THEN UNCHANGED <<mindmapError, isMindmapLoading, mindmapRequest>>
     ELSE /\ mindmapError' = "null"
          /\ isMindmapLoading' = TRUE
          /\ mindmapRequest' = selectedFiles
  /\ UNCHANGED <<selectedFiles, isAnalyzing, analysisResult, mindmapResult, error,
                 settingsOpen, apiKey, analysisCompleteMessage, analysisProgress,
                 progressTimer, analyzeRequest>>
  /\ UNCHANGED notPageVars

\* lines 474-482: handleFeatureSelect
handleFeatureSelect(feature) ==
  IF feature = "mindmap" THEN ensureMindmap(feature)
  ELSE /\ activeFeature' = feature
       /\ UNCHANGED <<selectedFiles, isAnalyzing, isMindmapLoading, analysisResult,
                      mindmapResult, error, mindmapError, settingsOpen, apiKey,
                      analysisCompleteMessage, analysisProgress, progressTimer,
                      analyzeRequest, mindmapRequest>>
       /\ UNCHANGED notPageVars

\* lines 780-781: the button of the mind-map panel, disabled while loading or
\* with no file
mindmapButton ==
  /\ ~isMindmapLoading
  /\ selectedFiles # 0
  /\ ensureMindmap(activeFeature)

\* lines 450-471: the /mindmap response has arrived
mindmapResponse(ok) ==
  /\ mindmapRequest # 0
  /\ IF ok
     THEN /\ mindmapResult' = mindmapRequest
          /\ UNCHANGED mindmapError
     ELSE /\ mindmapError' = "mindmapFailed"
          /\ mindmapResult' = 0
  /\ isMindmapLoading' = FALSE
  /\ mindmapRequest' = 0
  /\ UNCHANGED <<selectedFiles, isAnalyzing, analysisResult, activeFeature, error,
                 settingsOpen, apiKey, analysisCompleteMessage, analysisProgress,
                 progressTimer, analyzeRequest>>
  /\ UNCHANGED notPageVars

\* lines 857, 1039: the settings panel is opened or closed
setSettingsOpen(open) ==
  /\ open # settingsOpen
  /\ settingsOpen' = open
  /\ UNCHANGED <<selectedFiles, isAnalyzing, isMindmapLoading, analysisResult,
                 mindmapResult, activeFeature, error, mindmapError, apiKey,
                 analysisCompleteMessage, analysisProgress, progressTimer,
                 analyzeRequest, mindmapRequest>>
  /\ UNCHANGED notPageVars

\* line 1064: the key field of the open settings panel is edited
setApiKey(key) ==
  /\ settingsOpen
  /\ key # apiKey
  /\ apiKey' = key
  /\ UNCHANGED <<selectedFiles, isAnalyzing, isMindmapLoading, analysisResult,
                 mindmapResult, activeFeature, error, mindmapError, settingsOpen,
                 analysisCompleteMessage, analysisProgress, progressTimer,
                 analyzeRequest, mindmapRequest>>
  /\ UNCHANGED notPageVars

NextPage ==
  \/ \E f \in 1..MaxFiles, several \in BOOLEAN : handleFilesSelected(f, several)
  \/ resetSelection
  \/ handleAnalyze
  \/ \E ok \in BOOLEAN : analyzeResponse(ok)
  \/ progressTimeout
  \/ messageTimeout
  \/ \E feature \in {"summary", "pages", "mindmap"} : handleFeatureSelect(feature)
  \/ mindmapButton
  \/ \E ok \in BOOLEAN : mindmapResponse(ok)
  \/ \E open \in BOOLEAN : setSettingsOpen(open)
  \/ \E key \in BOOLEAN : setApiKey(key)

SpecPage == InitPage /\ [][NextPage]_vars

\* ---------------------------------------------------------------------------
\* handleAnalyze, the parse of the streamed response (lines 326-406). The
\* server sends lines of characters separated by "\n"; the line {p} is a
\* progress event, {r} and {s} are result events with data r and s, {e} is an
\* error event, and any other line is not JSON. Two reads of the same stream
\* are followed side by side, each receiving it in chunks of its own.

EventLines ==
  {<<"{", "p", "}">>, <<"{", "r", "}">>, <<"{", "s", "}">>, <<"{", "e", "}">>,
   <<"{", "r">>, <<" ">>, <<>>}

\* the characters of the lines, a "\n" after each but, when open, the last
RECURSIVE Serialize(_, _)
Serialize(lines, open) ==
  IF lines = <<>> THEN <<>>
  ELSE IF Len(lines) = 1 /\ open THEN lines[1]
  ELSE lines[1] \o <<"\n">> \o Serialize(Tail(lines), open)

Streams ==
  {Serialize(lines, open) :
     lines \in UNION {[1..k -> EventLines] : k \in 0..MaxEvents}, open \in BOOLEAN}

\* String.prototype.trim
RECURSIVE trim(_)
trim(t) ==
  IF t = <<>> THEN t
  ELSE IF t[1] = " " THEN trim(Tail(t))
  ELSE IF Last(t) = " " THEN trim(SubSeq(t, 1, Len(t) - 1))
  ELSE t

\* buffer.indexOf("\n"), counted from 1; 0 when there is none
indexOfNewline(buffer) ==
  IF \E k \in 1..Len(buffer) : buffer[k] = "\n"
  THEN CHOOSE k \in 1..Len(buffer) :
         buffer[k] = "\n" /\ \A j \in 1..(k - 1) : buffer[j] # "\n"
  ELSE 0

\* line 328: JSON.parse(line): the type of the event, "throws" when the line
\* is not JSON
eventType(line) ==
  IF Len(line) = 3 /\ line[1] = "{" /\ line[3] = "}" /\ line[2] \in {"p", "r", "s", "e"}
  THEN IF line[2] = "p" THEN "progress"
       ELSE IF line[2] = "e" THEN "error"
       ELSE "result"
  ELSE "throws"

\* lines 326-369: handleLine on the locals st of one read
handleLine(st, line) ==
  IF line = <<>> THEN st
  ELSE IF eventType(line) = "progress" THEN [st EXCEPT !.progress = "progress"]
  ELSE IF eventType(line) = "result"
       THEN [st EXCEPT !.finalData = line[2], !.progress = "result",
                       !.shouldStop = TRUE]
  ELSE IF eventType(line) = "error"
       THEN [st EXCEPT !.serverError = "error", !.progress = "error",
                       !.shouldStop = TRUE]
  ELSE st

\* lines 375-381: every complete line of the buffer is handled
RECURSIVE handleLines(_)
handleLines(st) ==
  LET newlineIndex == indexOfNewline(st.buffer)
  IN  IF newlineIndex = 0 THEN st
      ELSE handleLines(
             handleLine([st EXCEPT !.buffer = SubSeq(@, newlineIndex + 1, Len(@))],
                        trim(SubSeq(st.buffer, 1, newlineIndex - 1))))

\* lines 400-411: what handleAnalyze does once the loop is left
outcomeOf(st) ==
  IF st.serverError # "null" THEN <<"failure", st.serverError>>
  ELSE IF st.finalData = "null" THEN <<"failure", "noResult">>
  ELSE <<"success", st.finalData>>

leaveLoop(st) == [st EXCEPT !.status = "done", !.outcome = outcomeOf(st)]

\* lines 322-331: the locals when the loop is entered
NewParse ==
  [pos |-> 0, buffer |-> <<>>, finalData |-> "null", serverError |-> "null",
   shouldStop |-> FALSE, progress |-> "preparing", status |-> "reading",
   outcome |-> <<"none", "none">>]

InitStream ==
  /\ LayoutIdle
  /\ WrapIdle
  /\ FontCallsIdle
  /\ PageIdle
  /\ stream \in Streams
  /\ parses = <<NewParse, NewParse>>

\* lines 371-398: one iteration of the read loop, reader.read() delivering
\* the next n characters
readChunk(r, n) ==
  /\ parses[r].status = "reading"
  /\ parses[r].pos + n <= Len(stream)
  /\ LET st == parses[r]
         value == SubSeq(stream, st.pos + 1, st.pos + n)
         handled == handleLines([st EXCEPT !.pos = @ + n, !.buffer = @ \o value])
     IN  parses' = [parses EXCEPT ![r] =
                      IF handled.shouldStop /\ Len(handled.buffer) = 0
                      THEN leaveLoop(handled)
                      ELSE handled]
  /\ UNCHANGED stream
  /\ UNCHANGED notStreamVars

\* lines 371-390: the iteration in which reader.read() reports done
readDone(r) ==
  /\ parses[r].status = "reading"
  /\ parses[r].pos = Len(stream)
  /\ LET st == parses[r]
         remaining == trim(st.buffer)
     IN  parses' = [parses EXCEPT ![r] =
                      leaveLoop(IF remaining # <<>> THEN handleLine(st, remaining)
                                ELSE st)]
  /\ UNCHANGED stream
  /\ UNCHANGED notStreamVars

NextStream ==
  \/ \E r \in 1..2, n \in 1..Len(stream) : readChunk(r, n)
  \/ \E r \in 1..2 : readDone(r)

SpecStream == InitStream /\ [][NextStream]_vars

\* ================================================================== claims
ParaKinds == {"placeholder", "text", "keywords", "skip", "error"}

\* the paint operations of the finalized pages, in page order
RECURSIVE OpsOfPages(_)
OpsOfPages(k) == IF k = 0 THEN <<>> ELSE OpsOfPages(k - 1) \o canvases[pages[k]]

SecsOf(c) == {canvases[c][x].sec : x \in 1..Len(canvases[c])} \ {"page"}

Finished == pc = "done"

\* ---- C1
\* C1 (no-overflow invariant): every drawn paragraph line, bullet line and image
\* block ends at or above the bottom content boundary, i.e. the cursor after the
\* draw is <= PAGE_HEIGHT - MARGIN_BOTTOM, a page having been finalized first
\* whenever the draw would not fit.
C1_NoOverflow ==
  \A c \in DOMAIN canvases : \A x \in 1..Len(canvases[c]) :
    canvases[c][x].k \in ParaKinds \cup {"bline", "image"}
      => canvases[c][x].y + canvases[c][x].h <= PAGE_HEIGHT - MARGIN_BOTTOM

\* ---- C2
\* the content lines the page summaries call for, in input order
LinesSeq(n, kind, i, cnt) == [j \in 1..cnt |-> <<n, kind, i, j>>]

RECURSIVE BulletsSeq(_, _, _)
BulletsSeq(n, bl, i) ==
  IF i = 0 THEN <<>> ELSE BulletsSeq(n, bl, i - 1) \o LinesSeq(n, "bline", i, bl[i])

SummaryExpected(n) ==
  LET sm == payload.pageSummaries[n]
  IN  (IF sm.bullets # <<>> THEN BulletsSeq(n, sm.bullets, Len(sm.bullets))
       ELSE LinesSeq(n, "placeholder", 0, 1))
      \o LinesSeq(n, "keywords", 0, sm.kwLines)
      \o (IF sm.skipped /\ sm.skipLines > 0 THEN LinesSeq(n, "skip", 0, sm.skipLines)
          ELSE <<>>)

RECURSIVE ExpectedUpTo(_)
ExpectedUpTo(n) == IF n = 0 THEN <<>> ELSE ExpectedUpTo(n - 1) \o SummaryExpected(n)

IsSummaryContent(op) == op.sec = "ps" /\ op.k \in ParaKinds \cup {"bline"}

RenderedSummaryContent ==
  LET ops == SelectSeq(OpsOfPages(Len(pages)), IsSummaryContent)
  IN  [x \in 1..Len(ops) |-> <<ops[x].n, ops[x].k, ops[x].i, ops[x].j>>]

\* C2: when the document is returned, the content lines of the page summaries
\* (bullets or placeholder, keyword line, skip-reason line) found on the finalized
\* pages, read in page order, are exactly those the payload calls for, each once
\* and in input order.
C2_SummariesOnceInOrder ==
  Finished => RenderedSummaryContent = ExpectedUpTo(Len(payload.pageSummaries))

\* C2 witness: a returned document whose page summaries include a skipped one
\* and span more than one page
C2_Witness ==
  /\ Finished
  /\ Len(payload.pageSummaries) >= 3
  /\ \E n \in 1..Len(payload.pageSummaries) : payload.pageSummaries[n].skipped
  /\ Cardinality({k \in 1..Len(pages) : "ps" \in SecsOf(pages[k])}) >= 2

\* ---- C3
\* C3: no step of a run changes the paint log of a canvas that is already in
\* pages (finalized canvases are never painted again).
C3_FrozenNeverPainted ==
  [][pc # "done" => \A k \in 1..Len(pages) : canvases'[pages[k]] = canvases[pages[k]]]_vars

\* C3 witness: a paragraph line was just drawn on the fresh page right after the
\* overflow callback finalized the previous one
C3_Witness ==
  /\ pc = "para"
  /\ frame.done > 1
  /\ Len(pages) >= 1
  /\ Last(canvases[current.canvas]).k \in ParaKinds
  /\ Last(canvases[current.canvas]).j = frame.done
  /\ \E x \in 1..Len(canvases[Last(pages)]) :
       /\ canvases[Last(pages)][x].k = Last(canvases[current.canvas]).k
       /\ canvases[Last(pages)][x].sec = frame.sec
       /\ canvases[Last(pages)][x].j = frame.done - 1

\* ---- C4
BulletLineCount(op) ==
  IF op.sec = "gs" THEN payload.gsBullets[op.i] ELSE payload.pageSummaries[op.n].bullets[op.i]

\* C4 (atomic bullets): every line of a bullet whose wrapped height is less than
\* the content height of a page lies on the canvas that holds the bullet's glyph,
\* directly after the bullet's previous line, and inside the page bitmap.
C4_AtomicBullets ==
  \A c \in DOMAIN canvases : \A x \in 1..Len(canvases[c]) :
    LET op == canvases[c][x] IN
    (op.k = "bline"
       /\ BulletLineCount(op) * 26 < PAGE_HEIGHT - MARGIN_TOP - MARGIN_BOTTOM)
    => /\ x > 1
       /\ canvases[c][x - 1].sec = op.sec
       /\ canvases[c][x - 1].n = op.n
       /\ canvases[c][x - 1].i = op.i
       /\ canvases[c][x - 1].j = op.j - 1
       /\ canvases[c][x - 1].k = IF op.j = 1 THEN "glyph" ELSE "bline"
       /\ x + (BulletLineCount(op) - op.j) <= Len(canvases[c])
       /\ op.y + op.h <= PAGE_HEIGHT

\* C4 witness: long bullets pushed the page count above 1 and the second bullet
\* was drawn whole on the next page
C4_Witness ==
  /\ Len(pages) >= 1
  /\ \E x \in 1..Len(canvases[current.canvas]) :
       /\ canvases[current.canvas][x].k = "bline"
       /\ canvases[current.canvas][x].i = 2
       /\ canvases[current.canvas][x].j = 30
  /\ \E x \in 1..Len(canvases[Last(pages)]) :
       /\ canvases[Last(pages)][x].k = "bline"
       /\ canvases[Last(pages)][x].i = 1

\* ---- C5
\* a canvas that holds exactly the image section sec: its heading is the first
\* thing painted, at the top margin, and nothing of another section is on it
IsImagePage(c, sec) ==
  /\ SecsOf(c) = {sec}
  /\ Len(canvases[c]) >= 2
  /\ canvases[c][2].k = "imgHeading"
  /\ canvases[c][2].y = MARGIN_TOP

\* C5: once both image sections are composed, the last two finalized pages are
\* the word-cloud page and then the mind-map page; and at any time a canvas that
\* holds anything of an image section holds that section only, its heading
\* painted first at the top margin.
C5_TrailingImagePages ==
  /\ \A c \in DOMAIN canvases :
       \A sec \in {"wc", "mm"} : sec \in SecsOf(c) => IsImagePage(c, sec)
  /\ pc \in {"assemble", "done"} =>
       /\ Len(pages) >= 2
       /\ IsImagePage(pages[Len(pages) - 1], "wc")
       /\ IsImagePage(pages[Len(pages)], "mm")

\* C5 witness: a returned document whose per-page-summary page was not full
C5_Witness ==
  /\ Finished
  /\ Len(payload.pageSummaries) = 1
  /\ IsImagePage(pages[Len(pages) - 1], "wc")
  /\ IsImagePage(pages[Len(pages)], "mm")

\* ---- C6
\* C6: a returned document has at least 4 pages; for the empty payload it has
\* exactly 4: the cover/summary page, the per-page-summary page and the two
\* image placeholder pages.
C6_MinimumPages ==
  Finished =>
    /\ Len(pages) >= 4
    /\ payload = EmptyPayload =>
         /\ Len(pages) = 4
         /\ SecsOf(pages[1]) = {"title", "gs", "exp", "exp1", "exp2", "exp3", "kw"}
         /\ SecsOf(pages[2]) = {"ps"}
         /\ SecsOf(pages[3]) = {"wc"}
         /\ SecsOf(pages[4]) = {"mm"}

\* C6 witness: the empty payload's document
C6_Witness == Finished /\ payload = EmptyPayload /\ Len(outPages) = 4

\* ---- C7
\* C7 (page-count monotonicity): a payload obtained by adding content to the
\* previous invocation's payload yields at least as many finalized pages.
C7_PageCountMonotone ==
  (Finished /\ run > 1) => Len(pages) >= prevPageCount

\* ---- C8
HasError(c) == \E x \in 1..Len(canvases[c]) : canvases[c][x].k = "error"

\* C8: a rejected loadImage never rejects the invocation: it continues with the
\* error paragraph, which is painted on the page of its own image section; and a
\* returned document has exactly two pages that hold image-section content, the
\* word-cloud page followed by the mind-map page, whether a load failed or not.
C8_State ==
  /\ \A c \in DOMAIN canvases : HasError(c) =>
       \E sec \in {"wc", "mm"} :
         /\ IsImagePage(c, sec)
         /\ \A x \in 1..Len(canvases[c]) :
              canvases[c][x].k = "error" => canvases[c][x].sec = sec
  /\ Finished =>
       /\ result = "bytes"
       /\ {k \in 1..Len(pages) : SecsOf(pages[k]) \cap {"wc", "mm"} # {}}
            = {Len(pages) - 1, Len(pages)}
       /\ "wc" \in SecsOf(pages[Len(pages) - 1])
       /\ "mm" \in SecsOf(pages[Len(pages)])

\* C8: C8_State holds in every state, and the step that follows the image load
\* either draws the image or starts the error paragraph, without a result yet.
C8_ImageFailureAbsorbed ==
  /\ []C8_State
  /\ [][(pc = "imgLoad") => (pc' \in {"imgCommit", "imgError"} /\ result' = "none")]_vars

\* C8 witness: the word-cloud load failed with a long message and the document
\* was returned with the mind-map page after it
C8_Witness ==
  /\ Finished
  /\ payload.wordcloudUrl > 1
  /\ HasError(pages[Len(pages) - 1])
  /\ ~HasError(pages[Len(pages)])
  /\ "mm" \in SecsOf(pages[Len(pages)])

\* ---- C9
\* C9: while an invocation is composing, every finalized page has been replaced
\* by a fresh active surface (a failed context acquisition cannot be survived);
\* a rejected invocation holds an error and no document; a document is returned
\* only after every finalized canvas was converted; nothing runs after a
\* rejection.
C9_State ==
  /\ pc \notin {"font", "fontAwait", "create", "rejected"} =>
       /\ Len(canvases) = Len(pages) + 1
       /\ current.canvas = Len(canvases)
       /\ \A k \in 1..Len(pages) : pages[k] # current.canvas
  /\ pc = "rejected" <=> result = "error"
  /\ result = "bytes" <=> pc = "done"
  /\ result = "bytes" =>
       /\ Len(outPages) = Len(pages)
       /\ \A k \in 1..Len(pages) : outPages[k].canvas = pages[k]

\* C9: C9_State holds in every state, and no step starts from a rejected
\* invocation (no later section is composed after the failure).
C9_FatalErrorsAbort ==
  /\ []C9_State
  /\ [][pc # "rejected"]_vars

\* C9 witness: a context acquisition failed inside commitPage after the cover
\* page was finalized, and the invocation is rejected
C9_Witness ==
  /\ pc = "rejected"
  /\ result = "error"
  /\ Len(pages) >= 1
  /\ Len(canvases) = Len(pages)

\* ---- C10
\* C10: no step of ensurePrimaryFont rejects the invocation or produces a
\* result; the font step always hands over to the first createPage.
C10_FontFailureAbsorbed ==
  [][(pc \in {"font", "fontAwait"}) =>
       (pc' \in {"font", "fontAwait", "create"} /\ result' = "none")]_vars

\* C10 witness: the font load failed and the document was returned all the same
C10_Witness ==
  /\ Finished
  /\ result = "bytes"
  /\ payload.fontUrl
  /\ ~pdfFontLoaded
  /\ fontLoadPromise = "null"

\* ------------------------------------------------------------------- C11
FooterIndexes(c) == {x \in 1..Len(canvases[c]) : canvases[c][x].k = "footer"}

FinalizedCanvases == {pages[k] : k \in 1..Len(pages)}

\* C11: on every finalized page the footer is the last paint operation and
\* the only footer; a surface that has not been finalized carries no footer,
\* so no content is ever drawn after a footer.
C11_FooterLast ==
  \A c \in 1..Len(canvases) :
    IF c \in FinalizedCanvases
    THEN FooterIndexes(c) = {Len(canvases[c])}
    ELSE FooterIndexes(c) = {}

\* a returned document of more than four pages, one of them broken by an
\* overflow in the middle of a block
C11_Witness ==
  /\ Finished
  /\ Len(pages) > 4
  /\ \E k \in 1..Len(pages) : \E x \in 1..Len(canvases[pages[k]]) :
       canvases[pages[k]][x].k \in ParaKinds /\ canvases[pages[k]][x].j > 1
       /\ canvases[pages[k]][x - 1].k \in {"section", "sub", "pageHeading", "pageMeta"}

\* ------------------------------------------------------------------- C12
\* the muted placeholder lines drawn for section sec (page summary n)
MutedPlaceholders(sec, n) ==
  UNION {{<<c, x>> : x \in {y \in 1..Len(canvases[c]) :
                               /\ canvases[c][y].k = "placeholder"
                               /\ canvases[c][y].color = MUTED_COLOR
                               /\ canvases[c][y].sec = sec
                               /\ canvases[c][y].n = n}} : c \in 1..Len(canvases)}

EmptyFieldsOf(su) ==
  (IF su.bullets = <<>> THEN 1 ELSE 0) + (IF su.kwLines = 0 THEN 1 ELSE 0)

\* C12: in a returned document every optional textual field that is empty
\* (global-summary bullets, each expansion, aggregated keywords, the bullets
\* and the keywords of each page summary) has a muted placeholder line.
C12_PlaceholderForEveryEmptyField ==
  Finished =>
    /\ payload.gsBullets = <<>> => MutedPlaceholders("gs", 0) # {}
    /\ \A i \in 1..3 :
         payload.exp[i] = 0 => MutedPlaceholders(<<"exp1", "exp2", "exp3">>[i], 0) # {}
    /\ payload.kwLines = 0 => MutedPlaceholders("kw", 0) # {}
    /\ \A n \in 1..Len(payload.pageSummaries) :
         Cardinality(MutedPlaceholders("ps", n)) = EmptyFieldsOf(payload.pageSummaries[n])

\* ------------------------------------------------------------------- C13
Returned == wrapPc = "returned"

Segments == split(sanitize(wrapText))

IsPrefix(p, t) == Len(p) <= Len(t) /\ SubSeq(t, 1, Len(p)) = p

Drop(t, k) == SubSeq(t, k + 1, Len(t))

RECURSIVE TotalLen(_)
TotalLen(ls) == IF ls = <<>> THEN 0 ELSE Len(ls[1]) + TotalLen(Tail(ls))

\* the lines of group, concatenated, give segment t once at most one space is
\* put back at each wrap point (between two lines, or after the last line)
RECURSIVE SegmentRebuilt(_, _)
SegmentRebuilt(group, t) ==
  IF Len(group) = 1
  THEN t = group[1] \/ t = Append(group[1], " ")
  ELSE /\ IsPrefix(group[1], t)
       /\ LET r == Drop(t, Len(group[1]))
          IN  \/ SegmentRebuilt(Tail(group), r)
              \/ /\ r # <<>>
                 /\ r[1] = " "
                 /\ SegmentRebuilt(Tail(group), Tail(r))

\* ls splits into one non-empty group of lines per segment, in order
RECURSIVE Rebuilds(_, _)
Rebuilds(ls, segs) ==
  IF segs = <<>> THEN ls = <<>>
  ELSE \E k \in 1..Len(ls) :
         /\ SegmentRebuilt(SubSeq(ls, 1, k), segs[1])
         /\ Rebuilds(Drop(ls, k), Tail(segs))

\* C13: the lines wrapLine returns, concatenated per hard-newline segment,
\* give back the newline-normalized text except for a space removed at a wrap
\* point; nothing else is lost, added or reordered.
C13_WrapInvariant == Returned => Rebuilds(wrapResult, Segments)

\* a text of several segments that was wrapped and lost a space at a wrap point
C13_Witness ==
  /\ Returned
  /\ Len(Segments) >= 2
  /\ Len(wrapResult) > Len(Segments)
  /\ TotalLen(wrapResult) + Len(Segments) - 1 < Len(sanitize(wrapText))

\* ------------------------------------------------------------------- C14
TooWide(ch) == CharWidth(ch) > wrapMaxWidth

RECURSIVE CountTooWide(_)
CountTooWide(t) ==
  IF t = <<>> THEN 0
  ELSE (IF TooWide(t[1]) THEN 1 ELSE 0) + CountTooWide(Tail(t))

RECURSIVE CountTooWideIn(_)
CountTooWideIn(ls) ==
  IF ls = <<>> THEN 0 ELSE CountTooWide(ls[1]) + CountTooWideIn(Tail(ls))

EmptyCount(ls) == Cardinality({x \in 1..Len(ls) : ls[x] = <<>>})

AllSegmentsFit == \A x \in 1..Len(Segments) : measureText(Segments[x]) <= wrapMaxWidth

\* C15: wrapLine keeps blank lines: the result has exactly one empty line per
\* empty hard-newline segment (after \r\n and \r are normalized), and a text
\* whose k segments each fit within maxWidth comes back as exactly those k
\* lines, so "a\n" gives the line "a" followed by one empty line.
C15_BlankLinesKept ==
  wrapPc = "returned" =>
    /\ EmptyCount(wrapResult) = EmptyCount(Segments)
    /\ AllSegmentsFit => wrapResult = Segments
    /\ wrapText = <<"a", "\n">> => wrapResult = << <<"a">>, <<>> >>

\* a text with a blank line between two lines of text, one separator being \r\n
C15_Witness ==
  /\ wrapPc = "returned"
  /\ \E x \in 1..(Len(wrapText) - 1) : wrapText[x] = "\r" /\ wrapText[x + 1] = "\n"
  /\ Len(wrapResult) = 3
  /\ wrapResult[1] # <<>>
  /\ wrapResult[2] = <<>>
  /\ wrapResult[3] # <<>>

\* ------------------------------------------------------------------- C16
\* output page k shows canvas c alone, scaled by page width / canvas width,
\* with its top edge on the top edge of the page
ShowsCanvas(p, c) ==
  /\ p.size = <<PDF_PAGE_WIDTH, PDF_PAGE_HEIGHT>>
  /\ Len(p.images) = 1
  /\ p.images[1].canvas = c
  /\ p.images[1].x = Frac(0, 1)
  /\ p.images[1].width = Frac(PAGE_WIDTH * PDF_PAGE_WIDTH, PAGE_WIDTH)
  /\ p.images[1].height = Frac(PAGE_HEIGHT * PDF_PAGE_WIDTH, PAGE_WIDTH)
  /\ FracSub(Frac(PDF_PAGE_HEIGHT, 1), p.images[1].height) = p.images[1].y

\* C16: the assembler adds one output page per finalized canvas, in the order
\* of pages; every output page is PDF_PAGE_WIDTH x PDF_PAGE_HEIGHT and holds
\* only that canvas's image, scaled by PDF_PAGE_WIDTH / PAGE_WIDTH, its top
\* edge at the top of the page; a returned document has a page for every canvas.
C16_OnePagePerCanvas ==
  /\ Len(outPages) <= Len(pages)
  /\ \A k \in 1..Len(outPages) : ShowsCanvas(outPages[k], pages[k])
  /\ Finished => Len(outPages) = Len(pages)

\* a returned document of at least five pages
C16_Witness ==
  /\ Finished
  /\ Len(outPages) >= 5
  /\ outPages[5].images[1].canvas = pages[5]

InFontStep == pc \in {"font", "fontAwait"}

\* C18: in every invocation the font step is over before the first drawing
\* operation (no surface exists while it runs, no load is pending once it is
\* over), and once a font load has succeeded no later load is started,
\* whatever fontUrl later invocations pass.
C18_FontLoadedOnce ==
  /\ InFontStep => canvases = <<>>
  /\ ~InFontStep => fontLoadPromise # "pending"
  /\ \A k \in 1..Len(fontLoads) : fontLoads[k] = "ok" => k = Len(fontLoads)

\* a second invocation that passed a fontUrl after the first one's load succeeded
C18_Witness ==
  /\ run = 2
  /\ Finished
  /\ payload.fontUrl
  /\ pdfFontLoaded
  /\ fontLoads = <<"ok">>

\* ------------------------------------------------------------------- C19
\* the loadImage call of the mind-map page is in flight
MindmapLoading == pc = "imgLoad" /\ img = 2

\* the word-cloud page is finalized and shows what its load settled to
WordcloudSettled ==
  /\ pages # <<>>
  /\ IsImagePage(Last(pages), "wc")
  /\ current.canvas \notin FinalizedCanvases
  /\ IF payload.wordcloudUrl = 0
     THEN \E x \in 1..Len(canvases[Last(pages)]) :
            canvases[Last(pages)][x].k = "placeholder"
     ELSE \E x \in 1..Len(canvases[Last(pages)]) :
            canvases[Last(pages)][x].k \in {"image", "error"}

\* C19: the two image loads are sequential: while the mind-map load is in
\* flight the word-cloud load has settled and the word-cloud page is
\* finalized, and the word-cloud load is never in flight after the mind-map
\* page was begun.
C19_ImageLoadsSequential ==
  /\ MindmapLoading => WordcloudSettled
  /\ (pc = "imgLoad" /\ img = 1) =>
       \A c \in 1..Len(canvases) : "mm" \notin SecsOf(c)

\* the mind-map load is in flight after the word-cloud load failed
C19_Witness ==
  /\ MindmapLoading
  /\ payload.wordcloudUrl > 0
  /\ HasError(Last(pages))

\* ------------------------------------------------------------------- C20
\* C20: no line of a paragraph (text, keywords, skip reason, placeholder or
\* image-load error message) is drawn with its bottom below the bottom
\* content boundary: a line that would cross it is drawn on a fresh surface
\* after the overflow handler has run.
C20_ParagraphLinesFit ==
  \A c \in 1..Len(canvases) : \A x \in 1..Len(canvases[c]) :
    LET op == canvases[c][x]
    IN  op.k \in ParaKinds => op.y + op.h <= PAGE_HEIGHT - MARGIN_BOTTOM

\* ------------------------------------------------------------------- C21
HeadingKinds == {"section", "sub", "pageHeading", "pageMeta"}

ContentKinds == ParaKinds \cup {"glyph", "bline"}

\* op is content of the block that heading h opens
ContentOf(h, op) ==
  /\ op.k \in ContentKinds
  /\ CASE h.k = "section" -> op.sec = (IF h.sec = "exp" THEN "exp1" ELSE h.sec)
       [] h.k = "sub" -> op.sec = h.sec
       [] OTHER -> op.sec = "ps" /\ op.n = h.n

\* the last item of finalized page k before its footer is a heading whose
\* content is on page k + 1
Orphaned(k) ==
  LET ops == canvases[pages[k]]
      h == ops[Len(ops) - 1]
  IN  /\ Len(ops) >= 3
      /\ h.k \in HeadingKinds
      /\ \E x \in 1..Len(canvases[pages[k + 1]]) : ContentOf(h, canvases[pages[k + 1]][x])

\* C21: no finalized page ends (before the footer) with a section heading,
\* sub-heading or 'page N' heading whose content starts on the next page.
C21_NoOrphanHeading ==
  \A k \in 1..(Len(pages) - 1) : ~Orphaned(k)

\* ------------------------------------------------------------------- C22
\* C22: every page that holds per-page-summary content, the first one and
\* every continuation page, has the 'per-page highlights' heading as its
\* first drawn item, at the top margin.
C22_SummaryPagesHeaded ==
  \A c \in 1..Len(canvases) :
    (\E x \in 1..Len(canvases[c]) : canvases[c][x].sec = "ps" /\ canvases[c][x].k # "psHeading")
      => /\ canvases[c][2].k = "psHeading"
         /\ canvases[c][2].y = MARGIN_TOP

\* ------------------------------------------------------------------- C23
SectionPcs == {"gsHeading", "expHeading", "kwHeading"}

SubPcs == {"sub1", "sub2", "sub3"}

\* a step that calls ensureSpace and then draws a heading, without throwing
EnsureStep ==
  \/ pc \in SectionPcs \cup SubPcs /\ pc' \notin {pc, "rejected"}
  \/ pc = "psLoop" /\ pc' = "psBody"

\* the minHeight that step asks for, and the height of the heading it draws
MinHeightAt(p) == IF p \in SectionPcs THEN 80 ELSE IF p \in SubPcs THEN 50 ELSE 160

HeadingHeightAt(p) == IF p \in SectionPcs THEN 34 ELSE 28

\* C23: ensureSpace(minHeight) finalizes and allocates exactly once when
\* cursorY + minHeight is past the bottom content boundary (one page appended,
\* cursor back at the top margin, page number + 1) and otherwise leaves the
\* page sequence, the active surface, the cursor and the page number alone;
\* observed on the steps that call it and then draw a heading.
C23_EnsureSpaceFrame ==
  [][EnsureStep =>
       IF current.cursorY + MinHeightAt(pc) > PAGE_HEIGHT - MARGIN_BOTTOM
       THEN /\ pages' = Append(pages, current.canvas)
            /\ Len(canvases') = Len(canvases) + 1
            /\ current'.canvas = Len(canvases')
            /\ current'.pageNumber = current.pageNumber + 1
            /\ current'.cursorY = MARGIN_TOP + HeadingHeightAt(pc)
       ELSE /\ pages' = pages
            /\ Len(canvases') = Len(canvases)
            /\ current'.canvas = current.canvas
            /\ current'.pageNumber = current.pageNumber
            /\ current'.cursorY = current.cursorY + HeadingHeightAt(pc)]_vars

\* ensureSpace(160) has just broken the page before a page summary
C23_Witness ==
  /\ pc = "psBody"
  /\ sIdx > 1
  /\ current.cursorY = MARGIN_TOP + 28
  /\ canvases[current.canvas][2].k = "pageHeading"
  /\ Last(pages) = current.canvas - 1

\* ------------------------------------------------------------------- C24
\* the invocation has an active page and has not thrown
Running == current.canvas # 0 /\ pc # "rejected"

C24_State ==
  /\ Running => Len(pages) = current.pageNumber - 1
  /\ \A k \in 1..Len(pages) :
       /\ Last(canvases[pages[k]]).k = "footer"
       /\ Last(canvases[pages[k]]).n = k

\* a step of a run either leaves pages alone or appends the active canvas;
\* the new active page then has the next number and starts at the top margin
C24_Step ==
  (Running /\ pc # "done") =>
    \/ pages' = pages
    \/ /\ pages' = Append(pages, current.canvas)
       /\ pc' # "rejected" =>
            /\ current'.pageNumber = current.pageNumber + 1
            /\ current'.canvas = Len(canvases')
            /\ IF Len(canvases'[current'.canvas]) = 1
               THEN current'.cursorY = MARGIN_TOP
               ELSE canvases'[current'.canvas][2].y = MARGIN_TOP

\* C24: during a run pages is append-only and its length is the active page's
\* number minus 1; every finalize starts the next page at the top margin with
\* the number + 1, and the k-th finalized page carries footer number k.
C24_PageNumbering == []C24_State /\ [][C24_Step]_vars

\* a returned document of six pages or more
C24_Witness ==
  /\ Finished
  /\ Len(pages) >= 6
  /\ Last(canvases[pages[6]]).n = 6

\* ------------------------------------------------------------------- C25
SectionOrder ==
  <<"title", "gs", "exp1", "exp2", "exp3", "kw", "ps", "wc", "mm">>

\* the place of a section in SectionOrder; 0 for what belongs to no section
\* or is a heading that continuation pages repeat
SectionRank ==
  [sec \in {"title", "gs", "exp", "exp1", "exp2", "exp3", "kw", "ps", "wc", "mm", "page"} |->
     IF \E r \in 1..Len(SectionOrder) : SectionOrder[r] = sec
     THEN CHOOSE r \in 1..Len(SectionOrder) : SectionOrder[r] = sec
     ELSE 0]

BodyRank(op) ==
  IF op.k \in {"section", "sub", "pageHeading", "pageMeta"} THEN 0
  ELSE IF op.k = "psHeading" /\ op.y # MARGIN_TOP THEN 0
  ELSE SectionRank[op.sec]

IsBody(op) == BodyRank(op) # 0

\* the operations of canvas c that count for the order of sections
Body(c) == SelectSeq(canvases[c], IsBody)

\* the ranks never fall, within a canvas and from one canvas to a later one
RanksAscend ==
  /\ \A c \in 1..Len(canvases) :
       LET b == Body(c)
       IN  \A x \in 1..(Len(b) - 1) : BodyRank(b[x]) <= BodyRank(b[x + 1])
  /\ \A c, d \in 1..Len(canvases) :
       LET b == Body(c)
           e == Body(d)
       IN  c < d /\ b # <<>> /\ e # <<>> => BodyRank(Last(b)) <= BodyRank(e[1])

SectionsDrawn == UNION {SecsOf(c) : c \in 1..Len(canvases)}

\* C25: the sections are drawn in the order title block, global summary,
\* key conclusions, core data, risks-and-actions, aggregated keywords,
\* per-page summaries, word cloud, mind map, all of them in a returned
\* document; the title block is on page 1 only; no page holds both
\* aggregated-keyword and per-page-summary content, and the per-page-summary
\* block starts at the top of a fresh page.
C25_SectionOrder ==
  /\ RanksAscend
  /\ Finished => {SectionOrder[r] : r \in 1..Len(SectionOrder)} \subseteq SectionsDrawn
  /\ \A c \in 1..Len(canvases) :
       /\ "title" \in SecsOf(c) => c = 1
       /\ ~({"kw", "ps"} \subseteq SecsOf(c))
       /\ "ps" \in SecsOf(c) /\ (c = 1 \/ "ps" \notin SecsOf(c - 1)) =>
            /\ canvases[c][2].k = "psHeading"
            /\ canvases[c][2].y = MARGIN_TOP

\* a returned document whose aggregated keywords ended high on their page
C25_Witness ==
  /\ Finished
  /\ \E k \in 1..(Len(pages) - 1) :
       /\ "kw" \in SecsOf(pages[k])
       /\ "ps" \in SecsOf(pages[k + 1])
       /\ Len(canvases[pages[k]]) <= 4
  /\ Len(payload.pageSummaries) > 0

\* ------------------------------------------------------------------- C26
\* C26: provided every awaited step settles, every invocation eventually
\* returns document bytes or throws.
C26_Termination == (pc = "font") ~> (pc \in {"done", "rejected"})

\* a second invocation has returned a document of more than four pages
C26_Witness ==
  /\ run = 2
  /\ pc = "done"
  /\ result = "bytes"
  /\ Len(pages) > 4

\* the lines one segment of the returned text was wrapped into
SegmentLines(seg) == flush(wrapChars(<<>>, seg, Len(seg), wrapMaxWidth), seg)

\* the index in wrapResult of the first line of the k-th segment
RECURSIVE SegmentStart(_, _)
SegmentStart(segs, k) ==
  IF k = 1 THEN 1
  ELSE SegmentStart(segs, k - 1) + Len(SegmentLines(segs[k - 1]))

\* the indices in wrapResult of the first line of each segment: every other line
\* was begun by a wrap
SegmentStarts ==
  LET segs == split(sanitize(wrapText))
  IN  {SegmentStart(segs, k) : k \in 1..Len(segs)}

ContinuationLines == (1..Len(wrapResult)) \ SegmentStarts

\* C28: no line of the result begun by a wrap starts with a space
C28_NoLeadingSpace ==
  wrapPc = "returned" =>
    \A k \in ContinuationLines : wrapResult[k] = <<>> \/ wrapResult[k][1] # " "

\* the load attempts whose promise has not settled
InFlight == {l \in 1..Len(attempts) : attempts[l].status # "settled"}

\* C27: under overlapping invocations at most one font load attempt is in
\* flight at any time and the font is added to document.fonts at most once
C27_SingleFontLoad ==
  /\ Cardinality(InFlight) <= 1
  /\ fontsAdded <= 1

\* C29: a result shown on the upload page was produced from the file that is
\* selected now
C29_ResultOfSelection ==
  /\ analysisResult # 0 => analysisResult = selectedFiles
  /\ mindmapResult # 0 => mindmapResult = selectedFiles

\* C30: two reads of the same response end with the same outcome, however
\* each received it in chunks
C30_ChunkingIndependent ==
  (parses # <<>> /\ parses[1].status = "done" /\ parses[2].status = "done") =>
    parses[1].outcome = parses[2].outcome

====
